---- MODULE Spec2Model ----
(***************************************************************************)
(* Twitter mention ingestion of CivicSupportApp.                           *)
(*                                                                         *)
(* The repository holds two deployments of the ingestion pipeline:         *)
(*   app = "main"   : backend/app/main.py, TwitterService (MongoDB):       *)
(*                    poll_mentions / process_tweet, audit collection      *)
(*                    processed_tweets, cursor document twitter_config.    *)
(*   app = "server" : backend/server.py, TwitterSyncService (Supabase):    *)
(*                    sync_mentions, cursor row twitter_sync_state.        *)
(* A behaviour is one deployment; Init picks it.                           *)
(*                                                                         *)
(* Every coroutine runs on one asyncio event loop: a step of a cycle runs  *)
(* from the point where an awaited call is resumed to the next awaited     *)
(* call.  cy[w] is the frame of the cycle run by worker w: worker 0 is the *)
(* scheduler's job instance, workers 1..MaxManual are handlers of the      *)
(* manual trigger endpoint.                                                *)
(***************************************************************************)
EXTENDS Integers, Sequences, FiniteSets, TLC

VARIABLES
    app,               \* which deployment runs: "main" | "server"
    write_client,      \* TwitterService.write_client is configured
    issues,            \* the issue store, in insertion order; an issue's id is its position
    processed_tweets,  \* db.processed_tweets, in insertion order (no unique index)
    replies,           \* acknowledgement replies posted (the tweet ids replied to)
    poll_state,        \* db.twitter_config document {"_id": "poll_state"}
    sync_state,        \* twitter_sync_state row 'twitter_sync', absent until first read
    cy,                \* per worker: the frame of its poll cycle
    running,           \* the worker that holds the event loop between two of its steps
    faults,            \* collaborator calls that have raised so far
    cycles,            \* cycles started, counted where cycles may overlap
    call,              \* a call of a function of the parser or of the client: arguments and result
    seen               \* the mention ids the mentions endpoint has ever returned (history)

vars == <<app, write_client, issues, processed_tweets, replies, poll_state,
          sync_state, cy, running, faults, cycles, call, seen>>

stores == <<issues, processed_tweets, replies, poll_state, sync_state>>

-----------------------------------------------------------------------------
(* Bounds *)

\* mention ids are FirstId .. FirstId + NumIds - 1: they cross a digit length
FirstId == 9
NumIds == 3
\* manual trigger requests that can be in flight together
MaxManual == 1
\* collaborator calls (database, network) that raise in one behaviour
MaxFaults == 2
\* cycles started in one behaviour in which cycles may overlap
MaxCycles == 2

Ids == FirstId .. (FirstId + NumIds - 1)
Workers == 0 .. MaxManual

-----------------------------------------------------------------------------
(* Values *)

\* Python None for an Optional id
None == 0
\* Python None for an Optional str
NoText == "None"

CONFIDENCE_THRESHOLD == 600     \* 0.6, in thousandths

\* TweetParseResult as the pipeline reads it: is_civic_issue and confidence
\* (thousandths). The first is the model's default, returned when the AI
\* collaborator is unavailable or its answer does not parse.
ParseResults ==
    { [is_civic_issue |-> FALSE, confidence |-> 0],
      [is_civic_issue |-> FALSE, confidence |-> 850],
      [is_civic_issue |-> TRUE,  confidence |-> 599],
      [is_civic_issue |-> TRUE,  confidence |-> 600],
      [is_civic_issue |-> TRUE,  confidence |-> 850] }

\* f"{confidence:.2f}": thousandths to the nearest hundredth (no value of
\* ParseResults lies half way)
Format2f(c) == (c + 5) \div 10

LowConfidenceReason(c) == <<"low_confidence", Format2f(c)>>
NotCivicReason == <<"not_civic_issue">>
NoReason == <<>>

\* ProcessedTweet(...) built without its status: the default of the model
\* class, "pending", stays
ProcessedTweet_Pending(tweet_id, issue_id, status, skip_reason, reply_tweet_id, error_message) ==
    [tweet_id |-> tweet_id, issue_id |-> issue_id, status |-> "pending",
     skip_reason |-> skip_reason, reply_tweet_id |-> reply_tweet_id,
     error_message |-> error_message]

\* ProcessedTweet(...) with the model's defaults for the fields not given
ProcessedTweet(tweet_id, issue_id, status, skip_reason, reply_tweet_id, error_message) ==
    [tweet_id |-> tweet_id, issue_id |-> issue_id, status |-> status,
     skip_reason |-> skip_reason, reply_tweet_id |-> reply_tweet_id,
     error_message |-> error_message]

\* TwitterConfig defaults: what a read of the absent document yields
InitPollState ==
    [since_id |-> None, total_processed |-> 0, total_issues_created |-> 0,
     total_skipped |-> 0, total_failed |-> 0, last_error |-> NoText]

\* the row _get_sync_state creates on first access
InitSyncState ==
    [last_mention_id |-> None, total_tweets_processed |-> 0, total_issues_created |-> 0]

NoRow == [absent |-> TRUE]

ZeroStats ==
    [tweets_fetched |-> 0, issues_created |-> 0, duplicates_skipped |-> 0,
     errors |-> 0, pending_location |-> 0]

NoParse == [is_civic_issue |-> FALSE, confidence |-> 0]

\* What a request to the classification collaborator comes to: no API key is
\* configured ("unavailable"), the answer is not JSON ("malformed"), the call
\* raises ("error"), or the answer parses ("ok"); "none" where none was made
Degraded == {"unavailable", "malformed", "error"}
AIResponses == Degraded \cup {"ok"}

\* TweetParseResult(is_civic_issue=False): the other fields at their defaults
DefaultParse == [is_civic_issue |-> FALSE, confidence |-> 0]

\* AIClassificationResponse(category="general", confidence=0.5)
DefaultCategory == "general"

\* the category a parsed answer of the classification carries
AICategories == {"roads"}

\* what a cycle saw when it started: the sizes of the append-only stores and
\* the cursor document (history, read by the properties only)
Mark == [n_issues |-> Len(issues), n_processed |-> Len(processed_tweets),
         n_replies |-> Len(replies), poll_state |-> poll_state]

NoMark == [n_issues |-> 0, n_processed |-> 0, n_replies |-> 0,
           poll_state |-> InitPollState]

\* the mark is kept where cycles run one at a time
StartMark(one_at_a_time) == IF one_at_a_time THEN Mark ELSE NoMark

IdleFrame ==
    [pc |-> "idle", tweets |-> <<>>, idx |-> 0, parse_result |-> NoParse,
     issue_id |-> None, reply_id |-> None, skip_reason |-> NoReason,
     e |-> NoText, newest_id |-> None, since_id |-> None, fetched |-> "none",
     stats |-> ZeroStats, location_status |-> "resolved",
     start |-> NoMark,
     raised |-> <<>>,
     ai |-> "none"]

-----------------------------------------------------------------------------
(* Pure helpers *)

RECURSIVE Digits(_)
\* str(n): the decimal digits of n, most significant first
Digits(n) == IF n < 10 THEN <<n>> ELSE Append(Digits(n \div 10), n % 10)

RECURSIVE SeqLess(_, _)
\* Python's ordering of two str values: lexicographic, a proper prefix is smaller
SeqLess(s, t) ==
    IF t = <<>> THEN FALSE
    ELSE IF s = <<>> THEN TRUE
    ELSE IF Head(s) # Head(t) THEN Head(s) < Head(t)
    ELSE SeqLess(Tail(s), Tail(t))

\* tweet_id > newest_id on the ids as the API gives them (strings)
StrGreater(a, b) == SeqLess(Digits(b), Digits(a))

RECURSIVE Descending(_)
\* the elements of a set of ids, largest first: the order of response.data
Descending(S) ==
    IF S = {} THEN <<>>
    ELSE LET m == CHOOSE x \in S : \A y \in S : y <= x
         IN <<m>> \o Descending(S \ {m})

\* list(reversed(response.data))
Reversed(s) == [i \in 1 .. Len(s) |-> s[Len(s) + 1 - i]]

\* the request sent without since_id whatever the stored cursor is
SinceParam_Dropped(since_id) == None

\* the since_id parameter of the mentions request: sent only when truthy
SinceParam(since_id) == since_id

\* what the mentions endpoint may answer to a request with since_id: any set
\* of mentions newer than since_id, newest first
Mentions(since_id) ==
    { Descending(S) : S \in SUBSET { i \in Ids : since_id = None \/ i > since_id } }

RecordsOf(m) == { i \in 1 .. Len(processed_tweets) : processed_tweets[i].tweet_id = m }
IssuesOf(m) == { i \in 1 .. Len(issues) : issues[i].tweet_id = m }
RepliesTo(m) == { i \in 1 .. Len(replies) : replies[i] = m }

-----------------------------------------------------------------------------
(* Frames and faults *)

Idle(w) == cy[w].pc = "idle"

\* one more collaborator call may raise
CanRaise == faults < MaxFaults

\* the mention the cycle of w is at
Cur(w) == cy[w].tweets[cy[w].idx]

\* the frame of w after a collaborator call op raised; the exception is
\* handled at handler
Raised(w, op, handler) ==
    [cy[w] EXCEPT !.pc = handler, !.e = op, !.raised = Append(@, <<cy[w].idx, op>>)]

\* process_tweet without its except block: the exception leaves process_tweet
\* and ends the loop of poll_mentions
ExceptInProcessTweet_Propagates(w, op) == Raised(w, op, "t_poll_error")

\* process_tweet: a call inside the try block raised; the except block takes
\* over with store_processed_tweet of a failed record
ExceptInProcessTweet(w, op) == Raised(w, op, "t_store_failed")

\* TwitterService.poll_mentions after process_tweet returned: remember the
\* id, take the next tweet, or leave the loop for set_since_id
AfterTweet(f) ==
    LET g == [f EXCEPT !.newest_id = f.tweets[f.idx], !.parse_result = NoParse,
                       !.issue_id = None, !.reply_id = None,
                       !.skip_reason = NoReason, !.e = NoText, !.ai = "none"]
    IN IF f.idx < Len(f.tweets)
       THEN [g EXCEPT !.idx = f.idx + 1, !.pc = "t_is_dup"]
       ELSE [g EXCEPT !.pc = "t_set_since"]

\* the scheduler job runs with max_instances = 1 (worker 0); the manual
\* trigger endpoints start a cycle whenever they are called. With
\* one_at_a_time a cycle starts only when no cycle is in flight.
MayStart(w, one_at_a_time) ==
    /\ Idle(w)
    /\ running = {}
    /\ IF one_at_a_time
       THEN (\A v \in Workers : Idle(v)) /\ cycles' = cycles
       ELSE cycles < MaxCycles /\ cycles' = cycles + 1

-----------------------------------------------------------------------------
(* TwitterService (app = "main") *)

\* update_stats writing the counters with $set where the code uses $inc
update_stats_Set(ps, processed, created, skipped, failed) ==
    [ps EXCEPT !.total_processed = processed,
               !.total_issues_created = created,
               !.total_skipped = skipped,
               !.total_failed = failed]

\* update_stats without the $inc of total_failed
update_stats_FailedUncounted(ps, processed, created, skipped, failed) ==
    [ps EXCEPT !.total_processed = @ + processed,
               !.total_issues_created = @ + created,
               !.total_skipped = @ + skipped]

\* update_stats: $inc of the counters given
update_stats(ps, processed, created, skipped, failed) ==
    [ps EXCEPT !.total_processed = @ + processed,
               !.total_issues_created = @ + created,
               !.total_skipped = @ + skipped,
               !.total_failed = @ + failed]

\* record_error that only logs
record_error_LogsOnly(ps, error_message) == ps

\* record_error replacing the document instead of $set on one field
record_error_ResetsCursor(ps, error_message) ==
    [ps EXCEPT !.last_error = error_message, !.since_id = None]

\* record_error: $set of the last error
record_error(ps, error_message) == [ps EXCEPT !.last_error = error_message]

\* set_since_id: $set of the cursor
set_since_id(ps, tweet_id) == [ps EXCEPT !.since_id = tweet_id]

\* store_processed_tweet as an upsert keyed by the tweet id: a record of the
\* same tweet is replaced in place
store_processed_tweet_Upsert(store, processed_tweet) ==
    IF \E i \in 1 .. Len(store) : store[i].tweet_id = processed_tweet.tweet_id
    THEN [i \in 1 .. Len(store) |->
             IF store[i].tweet_id = processed_tweet.tweet_id
             THEN processed_tweet ELSE store[i]]
    ELSE Append(store, processed_tweet)

\* store_processed_tweet: insert_one of the record, nothing else is touched
store_processed_tweet(store, processed_tweet) == Append(store, processed_tweet)

\* is_duplicate that never finds a record
is_duplicate_Never(tweet_id) == FALSE

\* is_duplicate: a record with this tweet id exists
is_duplicate(tweet_id) == RecordsOf(tweet_id) # {}

\* the gate with > for >=: confidence equal to the threshold is skipped
Decide_StrictGate(r) ==
    IF ~r.is_civic_issue
    THEN [pc |-> "t_store_skipped", skip_reason |-> NotCivicReason]
    ELSE IF r.confidence <= CONFIDENCE_THRESHOLD
    THEN [pc |-> "t_store_skipped", skip_reason |-> LowConfidenceReason(r.confidence)]
    ELSE [pc |-> "t_create_issue", skip_reason |-> NoReason]

\* the two skip tests in the other order: the confidence is looked at first
Decide_ConfidenceFirst(r) ==
    IF r.confidence < CONFIDENCE_THRESHOLD
    THEN [pc |-> "t_store_skipped", skip_reason |-> LowConfidenceReason(r.confidence)]
    ELSE IF ~r.is_civic_issue
    THEN [pc |-> "t_store_skipped", skip_reason |-> NotCivicReason]
    ELSE [pc |-> "t_create_issue", skip_reason |-> NoReason]

\* process_tweet's branch on the parse result: skip as not civic, skip as low
\* confidence, or create the issue
Decide(r) ==
    IF ~r.is_civic_issue
    THEN [pc |-> "t_store_skipped", skip_reason |-> NotCivicReason]
    ELSE IF r.confidence < CONFIDENCE_THRESHOLD
    THEN [pc |-> "t_store_skipped", skip_reason |-> LowConfidenceReason(r.confidence)]
    ELSE [pc |-> "t_create_issue", skip_reason |-> NoReason]

\* poll_mentions is entered (scheduler tick or POST /twitter/poll)
T_Start(w, one_at_a_time) ==
    /\ app = "main"
    /\ MayStart(w, one_at_a_time)
    /\ cy' = [cy EXCEPT ![w] = [IdleFrame EXCEPT !.pc = "t_get_since", !.start = StartMark(one_at_a_time)]]
    /\ UNCHANGED <<app, write_client, stores, running, faults, seen>>

\* get_since_id, then the mentions request
T_Fetch(w) ==
    /\ cy[w].pc = "t_get_since"
    /\ running = {}
    /\ \/ \E data \in Mentions(SinceParam(poll_state.since_id)) :
            /\ cy' = [cy EXCEPT ![w] =
                        IF data = <<>>
                        THEN [@ EXCEPT !.fetched = "empty", !.pc = "t_stats_empty"]
                        ELSE [@ EXCEPT !.fetched = "ok", !.tweets = Reversed(data),
                                       !.idx = 1, !.pc = "t_is_dup"]]
            /\ seen' = seen \cup { data[i] : i \in 1 .. Len(data) }
            /\ UNCHANGED faults
       \/ /\ CanRaise
          /\ cy' = [cy EXCEPT ![w] =
                      [Raised(w, "get_users_mentions", "t_poll_error") EXCEPT !.fetched = "error"]]
          /\ faults' = faults + 1
          /\ UNCHANGED seen
       \/ /\ CanRaise
          /\ cy' = [cy EXCEPT ![w] = Raised(w, "get_since_id", "t_poll_error")]
          /\ faults' = faults + 1
          /\ UNCHANGED seen
    /\ UNCHANGED <<app, write_client, stores, running, cycles>>

\* process_tweet: the duplicate check
T_IsDuplicate(w) ==
    /\ cy[w].pc = "t_is_dup"
    /\ running = {}
    /\ \/ /\ cy' = [cy EXCEPT ![w] =
                      IF is_duplicate(Cur(w)) THEN AfterTweet(@)
                      ELSE [@ EXCEPT !.pc = "t_parse"]]
          /\ UNCHANGED faults
       \/ /\ CanRaise
          /\ cy' = [cy EXCEPT ![w] = Raised(w, "is_duplicate", "t_poll_error")]
          /\ faults' = faults + 1
    /\ UNCHANGED <<app, write_client, stores, running, cycles, seen>>

\* parse_tweet_to_issue: the fields of the parsed answer, the default result
\* where there is no client, the answer is not JSON or anything raises
parse_tweet_to_issue(ai, result) == IF ai \in Degraded THEN DefaultParse ELSE result

\* process_tweet where a failed parse_tweet_to_issue raises into the except
\* block of process_tweet
T_Parse_Propagates(w) ==
    /\ cy[w].pc = "t_parse"
    /\ running = {}
    /\ \E ai \in AIResponses, result \in ParseResults :
          /\ ai \in Degraded => result = DefaultParse
          /\ cy' = [cy EXCEPT ![w] =
                      IF ai \in Degraded
                      THEN [ExceptInProcessTweet(w, "parse_tweet_to_issue")
                               EXCEPT !.ai = ai]
                      ELSE [@ EXCEPT !.parse_result = result, !.ai = ai,
                                     !.pc = Decide(result).pc,
                                     !.skip_reason = Decide(result).skip_reason,
                                     !.issue_id = None, !.reply_id = None]]
    /\ UNCHANGED <<app, write_client, stores, running, faults, cycles, seen>>

\* process_tweet: parse_tweet_to_issue returns (it catches its own errors)
T_Parse(w) ==
    /\ cy[w].pc = "t_parse"
    /\ running = {}
    /\ \E ai \in AIResponses, result \in ParseResults :
          /\ ai \in Degraded => result = DefaultParse
          /\ LET r == parse_tweet_to_issue(ai, result)
             IN  cy' = [cy EXCEPT ![w] =
                          [@ EXCEPT !.parse_result = r, !.ai = ai,
                                    !.pc = Decide(r).pc,
                                    !.skip_reason = Decide(r).skip_reason,
                                    !.issue_id = None, !.reply_id = None]]
    /\ UNCHANGED <<app, write_client, stores, running, faults, cycles, seen>>

\* process_tweet: store_processed_tweet of a skipped record
T_StoreSkipped(w) ==
    /\ cy[w].pc = "t_store_skipped"
    /\ running = {}
    /\ \/ /\ processed_tweets' = store_processed_tweet(processed_tweets,
                 ProcessedTweet(Cur(w), None, "skipped", cy[w].skip_reason, None, NoText))
          /\ cy' = [cy EXCEPT ![w].pc = "t_stats_skipped"]
          /\ UNCHANGED faults
       \/ /\ CanRaise
          /\ cy' = [cy EXCEPT ![w] = ExceptInProcessTweet(w, "store_processed_tweet")]
          /\ faults' = faults + 1
          /\ UNCHANGED processed_tweets
    /\ UNCHANGED <<app, write_client, issues, replies, poll_state, sync_state, running, cycles, seen>>

\* process_tweet: update_stats(processed=1, skipped=1), then return
T_StatsSkipped(w) ==
    /\ cy[w].pc = "t_stats_skipped"
    /\ running = {}
    /\ \/ /\ poll_state' = update_stats(poll_state, 1, 0, 1, 0)
          /\ cy' = [cy EXCEPT ![w] = AfterTweet(@)]
          /\ UNCHANGED faults
       \/ /\ CanRaise
          /\ cy' = [cy EXCEPT ![w] = ExceptInProcessTweet(w, "update_stats")]
          /\ faults' = faults + 1
          /\ UNCHANGED poll_state
    /\ UNCHANGED <<app, write_client, issues, processed_tweets, replies, sync_state, running, cycles, seen>>

\* reply_to_tweet without its try/except: a create_tweet that raises reaches
\* the except block of process_tweet
T_CreateIssue_ReplyRaises(w) ==
    /\ cy[w].pc = "t_create_issue"
    /\ running = {}
    /\ \/ /\ issues' = Append(issues, [tweet_id |-> Cur(w), location_status |-> "resolved"])
          /\ \/ /\ write_client
                /\ replies' = Append(replies, Cur(w))
                /\ cy' = [cy EXCEPT ![w] =
                            [@ EXCEPT !.issue_id = Len(issues) + 1,
                                      !.reply_id = Len(replies) + 1,
                                      !.pc = "t_store_processed"]]
                /\ UNCHANGED faults
             \/ /\ write_client
                /\ CanRaise
                /\ cy' = [cy EXCEPT ![w] = ExceptInProcessTweet(w, "create_tweet")]
                /\ faults' = faults + 1
                /\ UNCHANGED replies
             \/ /\ ~write_client
                /\ cy' = [cy EXCEPT ![w] =
                            [@ EXCEPT !.issue_id = Len(issues) + 1, !.reply_id = None,
                                      !.pc = "t_store_processed"]]
                /\ UNCHANGED <<faults, replies>>
       \/ /\ CanRaise
          /\ cy' = [cy EXCEPT ![w] = ExceptInProcessTweet(w, "create_issue_from_tweet")]
          /\ faults' = faults + 1
          /\ UNCHANGED <<issues, replies>>
    /\ UNCHANGED <<app, write_client, processed_tweets, poll_state, sync_state, running, cycles, seen>>

\* process_tweet: create_issue_from_tweet inserts the issue, then
\* reply_to_tweet (blocking, swallows its own errors)
T_CreateIssue(w) ==
    /\ cy[w].pc = "t_create_issue"
    /\ running = {}
    /\ \/ /\ issues' = Append(issues, [tweet_id |-> Cur(w), location_status |-> "resolved"])
          /\ \/ /\ write_client
                /\ replies' = Append(replies, Cur(w))
                /\ cy' = [cy EXCEPT ![w] =
                            [@ EXCEPT !.issue_id = Len(issues) + 1,
                                      !.reply_id = Len(replies) + 1,
                                      !.pc = "t_store_processed"]]
                /\ UNCHANGED faults
             \/ /\ write_client
                /\ CanRaise
                /\ cy' = [cy EXCEPT ![w] =
                            [@ EXCEPT !.issue_id = Len(issues) + 1, !.reply_id = None,
                                      !.raised = Append(@, <<cy[w].idx, "create_tweet">>),
                                      !.pc = "t_store_processed"]]
                /\ faults' = faults + 1
                /\ UNCHANGED replies
             \/ /\ ~write_client
                /\ cy' = [cy EXCEPT ![w] =
                            [@ EXCEPT !.issue_id = Len(issues) + 1, !.reply_id = None,
                                      !.pc = "t_store_processed"]]
                /\ UNCHANGED <<faults, replies>>
       \/ /\ CanRaise
          /\ cy' = [cy EXCEPT ![w] = ExceptInProcessTweet(w, "create_issue_from_tweet")]
          /\ faults' = faults + 1
          /\ UNCHANGED <<issues, replies>>
    /\ UNCHANGED <<app, write_client, processed_tweets, poll_state, sync_state, running, cycles, seen>>

\* process_tweet: store_processed_tweet of the processed record
T_StoreProcessed(w) ==
    /\ cy[w].pc = "t_store_processed"
    /\ running = {}
    /\ \/ /\ processed_tweets' = store_processed_tweet(processed_tweets,
                 ProcessedTweet(Cur(w), cy[w].issue_id, "processed", NoReason,
                                cy[w].reply_id, NoText))
          /\ cy' = [cy EXCEPT ![w].pc = "t_stats_created"]
          /\ UNCHANGED faults
       \/ /\ CanRaise
          /\ cy' = [cy EXCEPT ![w] = ExceptInProcessTweet(w, "store_processed_tweet")]
          /\ faults' = faults + 1
          /\ UNCHANGED processed_tweets
    /\ UNCHANGED <<app, write_client, issues, replies, poll_state, sync_state, running, cycles, seen>>

\* process_tweet: update_stats(processed=1, created=1), then return
T_StatsCreated(w) ==
    /\ cy[w].pc = "t_stats_created"
    /\ running = {}
    /\ \/ /\ poll_state' = update_stats(poll_state, 1, 1, 0, 0)
          /\ cy' = [cy EXCEPT ![w] = AfterTweet(@)]
          /\ UNCHANGED faults
       \/ /\ CanRaise
          /\ cy' = [cy EXCEPT ![w] = ExceptInProcessTweet(w, "update_stats")]
          /\ faults' = faults + 1
          /\ UNCHANGED poll_state
    /\ UNCHANGED <<app, write_client, issues, processed_tweets, replies, sync_state, running, cycles, seen>>

\* process_tweet's except block: store_processed_tweet of a failed record
T_StoreFailed(w) ==
    /\ cy[w].pc = "t_store_failed"
    /\ running = {}
    /\ \/ /\ processed_tweets' = store_processed_tweet(processed_tweets,
                 ProcessedTweet(Cur(w), None, "failed", NoReason, None, cy[w].e))
          /\ cy' = [cy EXCEPT ![w].pc = "t_stats_failed"]
          /\ UNCHANGED faults
       \/ /\ CanRaise
          /\ cy' = [cy EXCEPT ![w] = Raised(w, "store_processed_tweet", "t_poll_error")]
          /\ faults' = faults + 1
          /\ UNCHANGED processed_tweets
    /\ UNCHANGED <<app, write_client, issues, replies, poll_state, sync_state, running, cycles, seen>>

\* process_tweet's except block: update_stats(processed=1, failed=1)
T_StatsFailed(w) ==
    /\ cy[w].pc = "t_stats_failed"
    /\ running = {}
    /\ \/ /\ poll_state' = update_stats(poll_state, 1, 0, 0, 1)
          /\ cy' = [cy EXCEPT ![w].pc = "t_record_error"]
          /\ UNCHANGED faults
       \/ /\ CanRaise
          /\ cy' = [cy EXCEPT ![w] = Raised(w, "update_stats", "t_poll_error")]
          /\ faults' = faults + 1
          /\ UNCHANGED poll_state
    /\ UNCHANGED <<app, write_client, issues, processed_tweets, replies, sync_state, running, cycles, seen>>

\* process_tweet's except block: record_error, then return
T_RecordError(w) ==
    /\ cy[w].pc = "t_record_error"
    /\ running = {}
    /\ \/ /\ poll_state' = record_error(poll_state, cy[w].e)
          /\ cy' = [cy EXCEPT ![w] = AfterTweet(@)]
          /\ UNCHANGED faults
       \/ /\ CanRaise
          /\ cy' = [cy EXCEPT ![w] = Raised(w, "record_error", "t_poll_error")]
          /\ faults' = faults + 1
          /\ UNCHANGED poll_state
    /\ UNCHANGED <<app, write_client, issues, processed_tweets, replies, sync_state, running, cycles, seen>>

\* poll_mentions after the loop: set_since_id(newest_id); the cycle ends
T_SetSinceId(w) ==
    /\ cy[w].pc = "t_set_since"
    /\ running = {}
    /\ \/ /\ poll_state' = set_since_id(poll_state, cy[w].newest_id)
          /\ cy' = [cy EXCEPT ![w].pc = "t_return"]
          /\ UNCHANGED faults
       \/ /\ CanRaise
          /\ cy' = [cy EXCEPT ![w] = Raised(w, "set_since_id", "t_poll_error")]
          /\ faults' = faults + 1
          /\ UNCHANGED poll_state
    /\ running' = IF cy'[w].pc = "t_return" THEN {w} ELSE {}
    /\ UNCHANGED <<app, write_client, issues, processed_tweets, replies, sync_state, cycles, seen>>

\* poll_mentions with no new mention: update_stats() with no counter; the
\* cycle ends
T_StatsEmpty(w) ==
    /\ cy[w].pc = "t_stats_empty"
    /\ running = {}
    /\ \/ /\ poll_state' = update_stats(poll_state, 0, 0, 0, 0)
          /\ cy' = [cy EXCEPT ![w].pc = "t_return"]
          /\ UNCHANGED faults
       \/ /\ CanRaise
          /\ cy' = [cy EXCEPT ![w] = Raised(w, "update_stats", "t_poll_error")]
          /\ faults' = faults + 1
          /\ UNCHANGED poll_state
    /\ running' = IF cy'[w].pc = "t_return" THEN {w} ELSE {}
    /\ UNCHANGED <<app, write_client, issues, processed_tweets, replies, sync_state, cycles, seen>>

\* poll_mentions' except block: record_error; the cycle ends, also when
\* record_error itself raises (the exception leaves poll_mentions)
T_PollError(w) ==
    /\ cy[w].pc = "t_poll_error"
    /\ running = {}
    /\ \/ /\ poll_state' = record_error(poll_state, cy[w].e)
          /\ cy' = [cy EXCEPT ![w].pc = "t_return"]
          /\ UNCHANGED faults
       \/ /\ CanRaise
          /\ cy' = [cy EXCEPT ![w] = Raised(w, "record_error", "t_return")]
          /\ faults' = faults + 1
          /\ UNCHANGED poll_state
    /\ running' = {w}
    /\ UNCHANGED <<app, write_client, issues, processed_tweets, replies, sync_state, cycles, seen>>

\* poll_mentions returns: the cycle ends
T_Return(w) ==
    /\ cy[w].pc = "t_return"
    /\ running = {w}
    /\ cy' = [cy EXCEPT ![w] = IdleFrame]
    /\ running' = {}
    /\ UNCHANGED <<app, write_client, stores, faults, cycles, seen>>

TwitterServiceStep(w) ==
    \/ T_Fetch(w) \/ T_IsDuplicate(w) \/ T_Parse(w)
    \/ T_StoreSkipped(w) \/ T_StatsSkipped(w)
    \/ T_CreateIssue(w) \/ T_StoreProcessed(w) \/ T_StatsCreated(w)
    \/ T_StoreFailed(w) \/ T_StatsFailed(w) \/ T_RecordError(w)
    \/ T_SetSinceId(w) \/ T_StatsEmpty(w) \/ T_PollError(w) \/ T_Return(w)

-----------------------------------------------------------------------------
(* TwitterSyncService (app = "server") *)

\* ParsedTweet as _create_issue_from_tweet reads it: whether geotag_coords is
\* set, and location_confidence
ParsedTweets ==
    { [geotag_coords |-> TRUE,  location_confidence |-> "high"],
      [geotag_coords |-> TRUE,  location_confidence |-> "low"],
      [geotag_coords |-> FALSE, location_confidence |-> "medium"],
      [geotag_coords |-> FALSE, location_confidence |-> "none"] }

\* _create_issue_from_tweet: the location status of the issue
LocationStatus(parsed) ==
    IF parsed.geotag_coords THEN "resolved"
    ELSE IF parsed.location_confidence = "none" THEN "pending"
    ELSE "resolved"

\* _get_sync_state: the row, created on first access
get_sync_state(row) == IF row = NoRow THEN InitSyncState ELSE row

\* _update_sync_state that writes the counts of the cycle as the totals
update_sync_state_Overwrite(row, newest_id, stats) ==
    [last_mention_id |-> newest_id,
     total_tweets_processed |-> stats.tweets_fetched,
     total_issues_created |-> stats.issues_created]

\* _update_sync_state: cursor and totals written from the current row
update_sync_state(row, newest_id, stats) ==
    [last_mention_id |-> newest_id,
     total_tweets_processed |-> get_sync_state(row).total_tweets_processed + stats.tweets_fetched,
     total_issues_created |-> get_sync_state(row).total_issues_created + stats.issues_created]

\* sync_mentions: newest_id after looking at tweet_id
TrackNewest(newest_id, tweet_id) ==
    IF newest_id = None \/ StrGreater(tweet_id, newest_id) THEN tweet_id ELSE newest_id

\* sync_mentions' duplicate check: an issue with this twitter_tweet_id exists
ExistingIssue(tweet_id) == IssuesOf(tweet_id) # {}

\* stats["errors"] += 1
CountError(f) == [f EXCEPT !.stats.errors = @ + 1]

\* sync_mentions is entered (scheduler job run_sync or trigger_manual_sync):
\* _get_sync_state, then the mentions request is awaited
S_Start(w, one_at_a_time) ==
    /\ app = "server"
    /\ MayStart(w, one_at_a_time)
    /\ \/ /\ sync_state' = get_sync_state(sync_state)
          /\ cy' = [cy EXCEPT ![w] =
                      [IdleFrame EXCEPT !.pc = "s_get_mentions", !.start = StartMark(one_at_a_time),
                                        !.since_id = get_sync_state(sync_state).last_mention_id]]
          /\ running' = {}
          /\ UNCHANGED faults
       \/ /\ CanRaise
          /\ cy' = [cy EXCEPT ![w] =
                      CountError([IdleFrame EXCEPT !.pc = "s_return", !.start = StartMark(one_at_a_time),
                                                   !.raised = << <<0, "get_sync_state">> >>])]
          /\ running' = {w}
          /\ faults' = faults + 1
          /\ UNCHANGED sync_state
    /\ UNCHANGED <<app, write_client, issues, processed_tweets, replies, poll_state, seen>>

\* TwitterClient.get_mentions returns or raises
S_GetMentions(w) ==
    /\ cy[w].pc = "s_get_mentions"
    /\ running = {}
    /\ \/ \E data \in Mentions(SinceParam(cy[w].since_id)) :
            /\ cy' = [cy EXCEPT ![w] =
                        IF data = <<>>
                        THEN [@ EXCEPT !.fetched = "empty", !.pc = "s_return"]
                        ELSE [@ EXCEPT !.fetched = "ok", !.tweets = data, !.idx = 1,
                                       !.stats.tweets_fetched = Len(data),
                                       !.pc = "s_loop"]]
            /\ seen' = seen \cup { data[i] : i \in 1 .. Len(data) }
            /\ UNCHANGED faults
       \/ /\ CanRaise
          /\ cy' = [cy EXCEPT ![w] =
                      [Raised(w, "RateLimitError", "s_return") EXCEPT !.fetched = "rate_limit"]]
          /\ faults' = faults + 1
          /\ UNCHANGED seen
       \/ /\ CanRaise
          /\ cy' = [cy EXCEPT ![w] =
                      CountError([Raised(w, "TwitterAPIError", "s_return")
                                     EXCEPT !.fetched = "error"])]
          /\ faults' = faults + 1
          /\ UNCHANGED seen
    /\ running' = {w}
    /\ UNCHANGED <<app, write_client, stores, cycles>>

\* one turn of the loop up to the awaited classification: newest_id, the
\* duplicate check, parse_tweet and the location block
S_Loop(w) ==
    /\ cy[w].pc = "s_loop"
    /\ running = {w}
    /\ cy[w].idx <= Len(cy[w].tweets)
    /\ LET f == [cy[w] EXCEPT !.newest_id = TrackNewest(@, Cur(w))]
       IN \/ /\ ExistingIssue(Cur(w))
             /\ cy' = [cy EXCEPT ![w] =
                         [f EXCEPT !.stats.duplicates_skipped = @ + 1, !.idx = @ + 1]]
             /\ UNCHANGED <<running, faults>>
          \/ /\ ~ExistingIssue(Cur(w))
             /\ \E parsed \in ParsedTweets :
                   cy' = [cy EXCEPT ![w] =
                            [f EXCEPT !.location_status = LocationStatus(parsed),
                                      !.pc = "s_classify"]]
             /\ running' = {}
             /\ UNCHANGED faults
          \/ /\ CanRaise
             /\ cy' = [cy EXCEPT ![w] =
                         CountError([f EXCEPT !.pc = "s_return",
                                              !.raised = Append(@, <<f.idx, "select">>)])]
             /\ faults' = faults + 1
             /\ UNCHANGED running
    /\ UNCHANGED <<app, write_client, stores, cycles, seen>>

\* classify_issue_with_ai of server.py, the classify_func of the sync
\* service: the category of the parsed answer, the default response where
\* there is no API key, the answer is not JSON or anything raises. It returns
\* on every path, so the except branch around classify_func is not entered.
classify_issue_with_ai(ai, category) ==
    IF ai \in Degraded THEN DefaultCategory ELSE category

\* the awaited classification (and media downloads) are over: the issue is
\* inserted with the category of the classification, the loop goes on
S_Classify(w) ==
    /\ cy[w].pc = "s_classify"
    /\ running = {}
    /\ \E ai \in AIResponses, category \in AICategories :
          \/ /\ issues' = Append(issues,
                       [tweet_id |-> Cur(w),
                        location_status |-> cy[w].location_status,
                        category |-> classify_issue_with_ai(ai, category)])
             /\ cy' = [cy EXCEPT ![w] =
                         [@ EXCEPT !.stats.issues_created = @ + 1,
                                   !.stats.pending_location =
                                       IF cy[w].location_status = "pending" THEN @ + 1 ELSE @,
                                   !.location_status = "resolved", !.ai = ai,
                                   !.idx = @ + 1, !.pc = "s_loop"]]
             /\ UNCHANGED faults
          \/ /\ CanRaise
             /\ cy' = [cy EXCEPT ![w] =
                         CountError([@ EXCEPT !.raised = Append(@, <<cy[w].idx, "insert">>),
                                              !.location_status = "resolved", !.ai = ai,
                                              !.idx = @ + 1, !.pc = "s_loop"])]
             /\ faults' = faults + 1
             /\ UNCHANGED issues
    /\ running' = {w}
    /\ UNCHANGED <<app, write_client, processed_tweets, replies, poll_state, sync_state, cycles, seen>>

\* after the loop: _update_sync_state(newest_id, stats)
S_UpdateSyncState(w) ==
    /\ cy[w].pc = "s_loop"
    /\ running = {w}
    /\ cy[w].idx > Len(cy[w].tweets)
    /\ \/ /\ sync_state' = update_sync_state(sync_state, cy[w].newest_id, cy[w].stats)
          /\ cy' = [cy EXCEPT ![w].pc = "s_return"]
          /\ UNCHANGED faults
       \/ /\ CanRaise
          /\ cy' = [cy EXCEPT ![w] =
                      CountError([@ EXCEPT !.pc = "s_return",
                                           !.raised = Append(@, <<0, "update_sync_state">>)])]
          /\ faults' = faults + 1
          /\ UNCHANGED sync_state
    /\ UNCHANGED <<app, write_client, issues, processed_tweets, replies, poll_state,
                   running, cycles, seen>>

\* return stats: the cycle ends
S_Return(w) ==
    /\ cy[w].pc = "s_return"
    /\ running = {w}
    /\ cy' = [cy EXCEPT ![w] = IdleFrame]
    /\ running' = {}
    /\ UNCHANGED <<app, write_client, stores, faults, cycles, seen>>

TwitterSyncServiceStep(w) ==
    \/ S_GetMentions(w) \/ S_Loop(w) \/ S_Classify(w)
    \/ S_UpdateSyncState(w) \/ S_Return(w)

-----------------------------------------------------------------------------
(* TweetParser (used by TwitterSyncService) *)

\* no call of a parser or client function is modelled in this behaviour
NoCall == [op |-> "none"]

\* a tuple that is None
NoCoords == <<>>

\* a text (a sequence of characters) that is None or empty: falsy in Python
NoLocation == <<>>

\* INDIAN_CITIES in dict order (three of its entries): key, city, latitude
\* and longitude in tenths of a degree
INDIAN_CITIES ==
    << [key |-> "delhi",     city |-> "Delhi",  lat |-> 286, lon |-> 772],
       [key |-> "new delhi", city |-> "Delhi",  lat |-> 286, lon |-> 772],
       [key |-> "mumbai",    city |-> "Mumbai", lat |-> 191, lon |-> 729] >>

CityKeys == { INDIAN_CITIES[i].key : i \in 1 .. Len(INDIAN_CITIES) }

\* hashtag.lower() on the tags of the model
Lower(tag) ==
    CASE tag = "Delhi" -> "delhi"
      [] tag = "MUMBAI" -> "mumbai"
      [] OTHER -> tag

\* tweet_data without a geo object
NoGeo == [absent |-> TRUE]

\* the result dict of _extract_location_multi_strategy before any strategy
EmptyLocation ==
    [location |-> NoLocation, city |-> NoText, has_geotag |-> FALSE,
     coords |-> NoCoords, confidence |-> "none"]

\* Strategy 1: the geotag ([longitude, latitude] turned into (lat, lng)) and
\* the place name
Strategy1Geotag(result, tweet) ==
    IF tweet.geo = NoGeo THEN result
    ELSE LET coords == tweet.geo.coordinates
             r1 == IF Len(coords) >= 2
                   THEN [result EXCEPT !.has_geotag = TRUE,
                                       !.coords = <<coords[2], coords[1]>>,
                                       !.confidence = "high"]
                   ELSE result
         IN IF tweet.geo.place_id /\ tweet.places # <<>>
            THEN [r1 EXCEPT !.location = tweet.places[1]]
            ELSE r1

RECURSIVE FirstLocation(_)
\* the first pattern whose cleaned match has at least 3 characters; a
\* pattern that does not match is NoLocation here
FirstLocation(matches) ==
    IF matches = <<>> THEN NoLocation
    ELSE IF Len(Head(matches)) >= 3 THEN Head(matches)
    ELSE FirstLocation(Tail(matches))

\* Strategy 2: the text patterns, tried when no place name was found
Strategy2Text(result, tweet) ==
    IF result.location # NoLocation \/ FirstLocation(tweet.pattern_matches) = NoLocation
    THEN result
    ELSE [result EXCEPT !.location = FirstLocation(tweet.pattern_matches),
                        !.confidence = IF @ = "none" THEN "medium" ELSE @]

\* a gazetteer hit that also replaces coordinates already found
CityHit_Overwrites(result, city_info) ==
    [result EXCEPT !.city = city_info.city,
                   !.coords = <<city_info.lat, city_info.lon>>,
                   !.confidence = IF @ = "none" THEN "low" ELSE @]

\* a gazetteer hit: the city, its default coordinates when none are known,
\* confidence low when none is known
CityHit(result, city_info) ==
    [result EXCEPT !.city = city_info.city,
                   !.coords = IF @ = NoCoords THEN <<city_info.lat, city_info.lon>> ELSE @,
                   !.confidence = IF @ = "none" THEN "low" ELSE @]

\* INDIAN_CITIES[key]
CityInfo(key) ==
    INDIAN_CITIES[CHOOSE i \in 1 .. Len(INDIAN_CITIES) : INDIAN_CITIES[i].key = key]

RECURSIVE Strategy3Hashtags(_, _)
\* Strategy 3: the first hashtag that is a gazetteer key
Strategy3Hashtags(result, hashtags) ==
    IF hashtags = <<>> THEN result
    ELSE IF Lower(Head(hashtags)) \in CityKeys
    THEN CityHit(result, CityInfo(Lower(Head(hashtags))))
    ELSE Strategy3Hashtags(result, Tail(hashtags))

\* Strategy 4: when no city is known, the first gazetteer key, in dict
\* order, contained in the lowered text
Strategy4TextCity(result, tweet) ==
    LET hits == { i \in 1 .. Len(INDIAN_CITIES) : INDIAN_CITIES[i].key \in tweet.text_cities }
    IN IF result.city # NoText \/ hits = {} THEN result
       ELSE CityHit(result, INDIAN_CITIES[CHOOSE i \in hits : \A j \in hits : i <= j])

\* _extract_location_multi_strategy
extract_location_multi_strategy(tweet) ==
    Strategy4TextCity(
        Strategy3Hashtags(
            Strategy2Text(Strategy1Geotag(EmptyLocation, tweet), tweet),
            tweet.hashtags),
        tweet)

\* cleaned matches of a location pattern: none, too short, long enough
PatternMatches == {NoLocation, <<"M", "G">>, <<"M", "G", " ", "R", "d">>}

Hashtags == {"Delhi", "MUMBAI", "potholes"}

\* the tweets given to the parser: geo object, included places, the cleaned
\* match of each of two location patterns, hashtags, and the gazetteer keys
\* the lowered text contains
ParserTweets ==
    [geo : {NoGeo} \cup [coordinates : {<<>>, <<771>>, <<773, 285>>}, place_id : BOOLEAN],
     places : {<<>>, <<NoLocation>>, <<<<"C", "P">>>>},
     pattern_matches : PatternMatches \X PatternMatches,
     hashtags : {<<>>} \cup { <<a>> : a \in Hashtags } \cup (Hashtags \X Hashtags),
     text_cities : {{}, {"delhi"}, {"mumbai"}, {"delhi", "new delhi"}, {"delhi", "mumbai"}}]

\* the parser is called on a tweet
P_ExtractLocation ==
    /\ call.op = "tweet"
    /\ call' = [op |-> "extract_location", tweet |-> call.tweet,
                result |-> extract_location_multi_strategy(call.tweet)]
    /\ UNCHANGED <<app, write_client, stores, cy, running, faults, cycles, seen>>

\* Texts are sequences of characters. The title of an empty clean text.
Placeholder ==
    <<"I", "s", "s", "u", "e", " ", "r", "e", "p", "o", "r", "t", "e", "d", " ", "v", "i", "a", " ", "T", "w", "i", "t", "t", "e", "r">>

Ellipsis == <<".", ".", ".">>

\* text[:n]
Take(text, n) == SubSeq(text, 1, IF n < Len(text) THEN n ELSE Len(text))

\* text.rsplit(' ', 1)[0]: what stands before the last space, the whole text
\* where it has no space
RSplitSpace(text) ==
    LET spaces == { i \in 1 .. Len(text) : text[i] = " " }
    IN  IF spaces = {} THEN text
        ELSE SubSeq(text, 1, (CHOOSE i \in spaces : \A j \in spaces : j <= i) - 1)

\* re.split(r'[.!?]\s', text)[0]: what stands before the first '.', '!' or '?'
\* that a whitespace follows, the whole text where there is none
FirstSentence(text) ==
    LET ends == { i \in 1 .. Len(text) - 1 :
                     text[i] \in {".", "!", "?"} /\ text[i + 1] = " " }
    IN  IF ends = {} THEN text
        ELSE SubSeq(text, 1, (CHOOSE i \in ends : \A j \in ends : i <= j) - 1)

\* TweetParser._extract_title
extract_title(text) ==
    IF text = <<>> THEN Placeholder
    ELSE LET sentence == FirstSentence(text)
         IN  IF sentence # <<>>
             THEN IF Len(sentence) > 100
                  THEN RSplitSpace(Take(sentence, 100)) \o Ellipsis
                  ELSE Take(sentence, 100)
             ELSE IF Len(text) > 100
                  THEN RSplitSpace(Take(text, 97)) \o Ellipsis
                  ELSE text

\* a word of n letters
Word(n) == [i \in 1 .. n |-> "a"]

\* the lengths of the words of the texts the title is extracted from
WordLens == {1, 3, 96, 97, 99, 100, 101}

\* Clean texts (_clean_tweet_text leaves no whitespace at either end and
\* single spaces inside): the empty text, one word, two words, two sentences,
\* and a text whose first sentence is empty
TitleTexts ==
    {<<>>}
    \cup { Word(n) : n \in WordLens }
    \cup { Word(n) \o <<" ">> \o Word(m) : n \in WordLens, m \in WordLens }
    \cup { Word(n) \o <<".", " ">> \o Word(m) : n \in WordLens, m \in WordLens }
    \cup { <<".", " ">> \o Word(m) : m \in WordLens }

\* the parser extracts the title of a clean text
P_ExtractTitle ==
    /\ call.op = "text"
    /\ call' = [op |-> "extract_title", text |-> call.text,
                result |-> extract_title(call.text)]
    /\ UNCHANGED <<app, write_client, stores, cy, running, faults, cycles, seen>>

\* TwitterClient. The exception classes of client.py and their base classes
Bases ==
    [RateLimitError |-> "TwitterAPIError", TwitterAPIError |-> "Exception",
     Exception |-> "BaseException"]

\* isinstance(exc, cls) for an exception of class exc
IsInstance(exc, cls) ==
    \/ exc = cls
    \/ exc \in DOMAIN Bases /\ Bases[exc] = cls
    \/ exc \in DOMAIN Bases /\ Bases[exc] \in DOMAIN Bases /\ Bases[Bases[exc]] = cls

\* What the request of a client method comes to: httpx.TimeoutException, or
\* a response with a status code and a JSON body that has a "data" or not
Timeout == [timeout |-> TRUE]
StatusCodes == {200, 401, 404, 429, 500}
Responses == [status_code : StatusCodes, data : BOOLEAN] \cup {Timeout}

Return(value) == [kind |-> "return", value |-> value]
Raise(exc) == [kind |-> "raise", exc |-> exc]

\* get_mentions that raises the generic error on a rate-limit response
get_mentions_Generic429(response) ==
    IF response = Timeout THEN Raise("TwitterAPIError")
    ELSE IF response.status_code = 200 THEN Return([data |-> response.data])
    ELSE Raise("TwitterAPIError")

\* TwitterClient.get_mentions
get_mentions(response) ==
    IF response = Timeout THEN Raise("TwitterAPIError")
    ELSE IF response.status_code = 200 THEN Return([data |-> response.data])
    ELSE IF response.status_code = 429 THEN Raise("RateLimitError")
    ELSE Raise("TwitterAPIError")

\* TwitterClient.get_user_id: data.get("data", {}).get("id") on success
get_user_id(response) ==
    IF response = Timeout THEN Raise("TwitterAPIError")
    ELSE IF response.status_code = 200
    THEN Return(IF response.data THEN "id" ELSE NoText)
    ELSE IF response.status_code = 404 THEN Return(NoText)
    ELSE IF response.status_code = 429 THEN Raise("RateLimitError")
    ELSE Return(NoText)

\* TwitterClient.get_tweet
get_tweet(response) ==
    IF response = Timeout THEN Return(NoText)
    ELSE IF response.status_code = 200 THEN Return([data |-> response.data])
    ELSE IF response.status_code = 404 THEN Return(NoText)
    ELSE IF response.status_code = 429 THEN Raise("RateLimitError")
    ELSE Return(NoText)

\* the client's request for the mentions comes back
P_GetMentions ==
    /\ call.op = "mentions"
    /\ call' = [op |-> "get_mentions", response |-> call.response,
                result |-> get_mentions(call.response)]
    /\ UNCHANGED <<app, write_client, stores, cy, running, faults, cycles, seen>>

\* the client's request for the user of a username comes back
P_GetUserId ==
    /\ call.op = "username"
    /\ call' = [op |-> "get_user_id", response |-> call.response,
                result |-> get_user_id(call.response)]
    /\ UNCHANGED <<app, write_client, stores, cy, running, faults, cycles, seen>>

\* the client's request for one tweet comes back
P_GetTweet ==
    /\ call.op = "tweet_id"
    /\ call' = [op |-> "get_tweet", response |-> call.response,
                result |-> get_tweet(call.response)]
    /\ UNCHANGED <<app, write_client, stores, cy, running, faults, cycles, seen>>

\* the location block that marks every issue without coordinates as pending
LocationBlock_PendingWithoutCoords(parsed) ==
    IF parsed.coords # NoCoords
    THEN [status |-> "resolved", latitude |-> parsed.coords[1],
          longitude |-> parsed.coords[2],
          city |-> IF parsed.city # NoText THEN parsed.city ELSE "Delhi",
          area |-> parsed.location]
    ELSE [status |-> "pending", latitude |-> 286, longitude |-> 772,
          city |-> IF parsed.city # NoText THEN parsed.city ELSE "Delhi",
          area |-> <<"Location needed">>]

\* _create_issue_from_tweet: the location block of the issue, from the
\* location fields of the ParsedTweet (geotag_coords is the coords of the
\* extraction); the defaults are Delhi's, in tenths of a degree
LocationBlock(parsed) ==
    IF parsed.coords # NoCoords
    THEN [status |-> "resolved", latitude |-> parsed.coords[1],
          longitude |-> parsed.coords[2],
          city |-> IF parsed.city # NoText THEN parsed.city ELSE "Delhi",
          area |-> parsed.location]
    ELSE IF parsed.confidence = "none"
    THEN [status |-> "pending", latitude |-> 286, longitude |-> 772,
          city |-> IF parsed.city # NoText THEN parsed.city ELSE "Delhi",
          area |-> <<"Location needed">>]
    ELSE [status |-> "resolved", latitude |-> 286, longitude |-> 772,
          city |-> IF parsed.city # NoText THEN parsed.city ELSE "Delhi",
          area |-> parsed.location]

\* _create_issue_from_tweet builds the location block from the parse
P_IssueLocation ==
    /\ call.op = "extract_location"
    /\ call' = [op |-> "issue_location", tweet |-> call.tweet, result |-> call.result,
                location |-> LocationBlock(call.result)]
    /\ UNCHANGED <<app, write_client, stores, cy, running, faults, cycles, seen>>

(* The manual trigger of server.py: POST /twitter/sync *)

\* trigger_manual_sync answering with empty stats when no service is set
trigger_manual_sync_Silent(sync_service) ==
    IF ~sync_service THEN "return" ELSE "sync_mentions"

\* trigger_manual_sync: what it does given whether _sync_service is set
\* (setup_twitter_scheduler ran at startup): raise RuntimeError, or await
\* sync_mentions
trigger_manual_sync(sync_service) ==
    IF ~sync_service THEN "RuntimeError" ELSE "sync_mentions"

\* trigger_twitter_sync_public: the response to the outcome of
\* trigger_manual_sync
TriggerResponse(outcome, stats) ==
    CASE outcome = "RuntimeError" -> [status |-> 400, success |-> FALSE, stats |-> ZeroStats]
      [] outcome \in {"return", "sync_mentions"} ->
            [status |-> 200, success |-> TRUE, stats |-> stats]
      [] OTHER -> [status |-> 500, success |-> FALSE, stats |-> ZeroStats]

\* the worker that handles the request
Handler == 1

\* the request is answered at once: no cycle is run
M_Immediate ==
    /\ call.op = "trigger_manual_sync"
    /\ trigger_manual_sync(call.sync_service) # "sync_mentions"
    /\ \A w \in Workers : Idle(w)
    /\ call' = [op |-> "responded", sync_service |-> call.sync_service, cycles_run |-> 0,
                response |-> TriggerResponse(trigger_manual_sync(call.sync_service), ZeroStats)]
    /\ UNCHANGED <<app, write_client, stores, cy, running, faults, cycles, seen>>

\* trigger_manual_sync awaits sync_mentions
M_Start ==
    /\ call.op = "trigger_manual_sync"
    /\ trigger_manual_sync(call.sync_service) = "sync_mentions"
    /\ S_Start(Handler, TRUE)
    /\ call' = [op |-> "sync_mentions", sync_service |-> call.sync_service, cycles_run |-> 1]

\* the cycle of the request runs
M_Step ==
    /\ call.op = "sync_mentions"
    /\ \/ S_GetMentions(Handler) \/ S_Loop(Handler)
       \/ S_Classify(Handler) \/ S_UpdateSyncState(Handler)
    /\ UNCHANGED call

\* sync_mentions returns its stats, which the response carries
M_Return ==
    /\ call.op = "sync_mentions"
    /\ S_Return(Handler)
    /\ call' = [op |-> "responded", sync_service |-> call.sync_service,
                cycles_run |-> call.cycles_run,
                response |-> TriggerResponse("sync_mentions", cy[Handler].stats)]

\* the scheduler job, which exists once setup_twitter_scheduler has run
M_Scheduled ==
    /\ call.sync_service
    /\ S_Start(0, TRUE) \/ TwitterSyncServiceStep(0)
    /\ UNCHANGED call

-----------------------------------------------------------------------------
(* Specifications *)

\* a fresh deployment: empty stores, no cycle in flight
InitDeployment ==
    /\ app \in {"main", "server"}
    /\ write_client \in BOOLEAN
    /\ app = "server" => write_client = FALSE
    /\ issues = <<>>
    /\ processed_tweets = <<>>
    /\ replies = <<>>
    /\ poll_state = InitPollState
    /\ sync_state = NoRow
    /\ cy = [w \in Workers |-> IdleFrame]
    /\ running = {}
    /\ cycles = 0
    /\ seen = {}

Init ==
    /\ InitDeployment
    /\ faults = 0
    /\ call = NoCall

\* cycles run one at a time
Next ==
    /\ \E w \in Workers :
        \/ T_Start(w, TRUE)
        \/ TwitterServiceStep(w)
        \/ S_Start(w, TRUE)
        \/ TwitterSyncServiceStep(w)
    /\ UNCHANGED call

Spec == Init /\ [][Next]_vars

\* the steps of TwitterService that run when no collaborator call raises
TwitterServiceStepNoFault(w) ==
    \/ T_Fetch(w) \/ T_IsDuplicate(w) \/ T_Parse(w)
    \/ T_StoreSkipped(w) \/ T_StatsSkipped(w)
    \/ T_CreateIssue(w) \/ T_StoreProcessed(w) \/ T_StatsCreated(w)
    \/ T_SetSinceId(w) \/ T_StatsEmpty(w) \/ T_Return(w)

\* collaborators that never raise
InitNoFault ==
    /\ InitDeployment
    /\ faults = MaxFaults
    /\ call = NoCall

\* cycles start as the entry points of the code let them: the scheduler job
\* never overlaps itself, a manual trigger starts a cycle at once
NextOverlap ==
    /\ \E w \in Workers :
        \/ T_Start(w, FALSE)
        \/ TwitterServiceStepNoFault(w)
        \/ S_Start(w, FALSE)
        \/ TwitterSyncServiceStep(w)
    /\ UNCHANGED call

SpecOverlap == InitNoFault /\ [][NextOverlap]_vars

\* the arguments of the calls of the parser and of the client
Calls ==
    [op : {"tweet"}, tweet : ParserTweets]
    \cup [op : {"text"}, text : TitleTexts]
    \cup [op : {"mentions", "username", "tweet_id"}, response : Responses]

\* a function of the parser or of the client is about to be called on one
\* of its arguments, in a deployment at rest
InitCalls ==
    /\ InitDeployment
    /\ app = "server"
    /\ faults = 0
    /\ call \in Calls

NextCalls ==
    \/ P_ExtractLocation
    \/ P_IssueLocation
    \/ P_ExtractTitle
    \/ P_GetMentions
    \/ P_GetUserId
    \/ P_GetTweet

SpecCalls == InitCalls /\ [][NextCalls]_vars

\* a request to POST /twitter/sync is waiting, in a server whose startup did
\* or did not set up the sync service
InitTrigger ==
    /\ InitDeployment
    /\ app = "server"
    /\ faults = 0
    /\ call \in [op : {"trigger_manual_sync"}, sync_service : BOOLEAN]

NextTrigger ==
    \/ M_Immediate
    \/ M_Start
    \/ M_Step
    \/ M_Return
    \/ M_Scheduled

SpecTrigger == InitTrigger /\ [][NextTrigger]_vars

-----------------------------------------------------------------------------
(* Properties *)

AllIdle == \A w \in Workers : Idle(w)

\* the steps of process_tweet after the parse result is known
AfterParse ==
    {"t_store_skipped", "t_stats_skipped", "t_create_issue", "t_store_processed",
     "t_stats_created", "t_store_failed", "t_stats_failed", "t_record_error"}

\* w is inside process_tweet, past the duplicate check
InProcessTweet(w) == cy[w].pc \in AfterParse \cup {"t_parse"}

\* an audit record of m with status processed exists
HasProcessedRecord(m) ==
    \E i \in RecordsOf(m) : processed_tweets[i].status = "processed"

\* m was handled before the cycle of w started: TwitterService keeps an
\* audit record of it, TwitterSyncService an issue
HandledBefore(w, m) ==
    IF app = "main"
    THEN \E i \in RecordsOf(m) : i <= cy[w].start.n_processed
    ELSE \E i \in IssuesOf(m) : i <= cy[w].start.n_issues

\* the issues, audit records and replies of m written since the cycle of w
\* started
NewIssuesOf(w, m) == { i \in IssuesOf(m) : i > cy[w].start.n_issues }
NewRecordsOf(w, m) == { i \in RecordsOf(m) : i > cy[w].start.n_processed }
NewRepliesTo(w, m) == { i \in RepliesTo(m) : i > cy[w].start.n_replies }

\* the cursor of the deployment, None when never written
Cursor ==
    IF app = "main" THEN poll_state.since_id
    ELSE get_sync_state(sync_state).last_mention_id

(* C1: with cycles run one at a time and whatever collaborator call fails,
   the audit store holds at most one ProcessedTweet record per tweet id.
   The code breaks it: when update_stats raises after the record was stored,
   the except block of process_tweet stores a second, failed record. *)
C1_AtMostOneRecord ==
    \A m \in Ids : Cardinality(RecordsOf(m)) <= 1

(* C2: whenever no mention is mid-processing, an issue carrying mention id m
   exists if and only if a processed audit record of m exists (TwitterService).
   The code breaks it: when the audit write raises after the issue insert, the
   issue stays and the mention gets a failed record. *)
C2_IssueIffProcessed ==
    (app = "main" /\ \A w \in Workers : ~InProcessTweet(w))
        => \A m \in Ids : (IssuesOf(m) # {}) <=> HasProcessedRecord(m)

(* C3: a cycle that fetches a mention handled before the cycle started treats
   it as a duplicate: no step of the cycle adds an issue or an audit record
   for that mention id. *)
C3_Idempotent ==
    [][\A w \in Workers : \A m \in Ids :
          (~Idle(w) /\ HandledBefore(w, m))
              => /\ IssuesOf(m)' = IssuesOf(m)
                 /\ RecordsOf(m)' = RecordsOf(m)]_vars

\* TwitterService has just returned from process_tweet at its duplicate
\* check, for a mention that had its record before the cycle started
C3_Witness ==
    \E w \in Workers :
        /\ app = "main"
        /\ cy[w].pc \in {"t_is_dup", "t_set_since"}
        /\ cy[w].newest_id # None
        /\ HandledBefore(w, cy[w].newest_id)

\* TwitterSyncService returns stats that count a duplicate
C3_WitnessSync ==
    \E w \in Workers :
        /\ cy[w].pc = "s_return"
        /\ cy[w].stats.duplicates_skipped > 0

(* C4: at most one poll cycle is executing at any time, whichever entry point
   started it. The code breaks it: the manual trigger starts a cycle while
   the scheduler's cycle is suspended at an await. *)
C4_SingleCycle ==
    Cardinality({ w \in Workers : ~Idle(w) }) <= 1

(* C5: when two cycles run interleaved over the same mention, the mention
   still ends with at most one issue and at most one audit record. The code
   breaks it: no store has a unique index on the mention id, and both cycles
   pass the duplicate check before either writes. *)
C5_OneIssueOneRecord ==
    \A m \in Ids : Cardinality(IssuesOf(m)) <= 1 /\ Cardinality(RecordsOf(m)) <= 1

\* the cursor the cycle of w read when it started
CursorAtStart(w) ==
    IF app = "main" THEN cy[w].start.poll_state.since_id ELSE cy[w].since_id

(* C6: with cycles run one after another, the stored cursor (since_id of
   TwitterService, last_mention_id of TwitterSyncService), read as a mention
   id, never decreases: no step writes a smaller id than the one stored. *)
C6_CursorMonotone ==
    [][Cursor' >= Cursor]_vars

\* a cycle that started with a cursor ends having stored a larger one
C6_Witness ==
    \E w \in Workers :
        /\ cy[w].pc \in {"t_return", "s_return"}
        /\ cy[w].raised = <<>>
        /\ CursorAtStart(w) # None
        /\ Cursor > CursorAtStart(w)

(* C7: a cycle whose mention fetch raised (RateLimitError or TwitterAPIError
   in TwitterSyncService, any exception of get_users_mentions in
   TwitterService) leaves the stored cursor as it was at the start of the
   cycle and adds no issue and no audit record. *)
C7_FetchFailureFrame ==
    \A w \in Workers :
        cy[w].fetched \in {"rate_limit", "error"}
            => /\ Cursor = CursorAtStart(w)
               /\ Len(issues) = cy[w].start.n_issues
               /\ Len(processed_tweets) = cy[w].start.n_processed

\* a cycle whose fetch raised has ended, in a deployment whose cursor an
\* earlier cycle had set
C7_Witness ==
    \E w \in Workers :
        /\ cy[w].pc \in {"t_return", "s_return"}
        /\ cy[w].fetched \in {"rate_limit", "error"}
        /\ Cursor # None
        /\ Len(issues) > 0

\* the collaborator calls inside the try block of process_tweet
TryOps == {"store_processed_tweet", "update_stats", "create_issue_from_tweet"}

\* the cycle of w ended after exactly the call op raised, for the k-th
\* mention of the batch
EndedWithOneRaise(w, k, op) ==
    /\ cy[w].pc \in {"t_return", "s_return"}
    /\ cy[w].fetched = "ok"
    /\ cy[w].raised = << <<k, op>> >>

(* C8: when one call of the processing of one mention raises (inside the try
   block of process_tweet; the issue insert of sync_mentions), the cycle
   counts exactly one error and goes on to the end of the batch. In
   TwitterService the mention gets a failed audit record carrying the error,
   every mention of the batch has an audit record, the cursor reaches the
   last mention, and when it was the issue insert that raised the mention has
   no issue and the created counter grew by the number of issues added. In
   TwitterSyncService, which keeps no audit store, every other mention of the
   batch was created or skipped as a duplicate. *)
C8_FailureIsolation ==
    \A w \in Workers :
        /\ \A k \in 1 .. NumIds : \A op \in TryOps :
              (app = "main" /\ EndedWithOneRaise(w, k, op))
                  => /\ \E i \in NewRecordsOf(w, cy[w].tweets[k]) :
                            /\ processed_tweets[i].status = "failed"
                            /\ processed_tweets[i].error_message = op
                     /\ poll_state.total_failed = cy[w].start.poll_state.total_failed + 1
                     /\ \A j \in 1 .. Len(cy[w].tweets) : RecordsOf(cy[w].tweets[j]) # {}
                     /\ poll_state.since_id = cy[w].tweets[Len(cy[w].tweets)]
                     /\ op = "create_issue_from_tweet"
                           => /\ NewIssuesOf(w, cy[w].tweets[k]) = {}
                              /\ poll_state.total_issues_created
                                    - cy[w].start.poll_state.total_issues_created
                                 = Len(issues) - cy[w].start.n_issues
        /\ \A k \in 1 .. NumIds :
              (app = "server" /\ EndedWithOneRaise(w, k, "insert"))
                  => /\ cy[w].stats.errors = 1
                     /\ cy[w].stats.issues_created + cy[w].stats.duplicates_skipped + 1
                           = Len(cy[w].tweets)
                     /\ cy[w].stats.issues_created = Len(issues) - cy[w].start.n_issues
                     /\ sync_state # NoRow
                     /\ sync_state.last_mention_id = cy[w].newest_id

\* a batch of 3 whose 2nd mention failed at the issue insert: 2 created,
\* 1 failed
C8_Witness ==
    \E w \in Workers :
        /\ app = "main"
        /\ EndedWithOneRaise(w, 2, "create_issue_from_tweet")
        /\ Len(cy[w].tweets) = 3
        /\ poll_state.total_issues_created = 2
        /\ poll_state.total_failed = 1
        /\ Len(processed_tweets) = 3

\* the steps of process_tweet on the skip path and on the create path
SkipPath == {"t_store_skipped", "t_stats_skipped"}
CreatePath == {"t_create_issue", "t_store_processed", "t_stats_created"}

\* w is inside process_tweet with the parse result known
Parsed(w) == app = "main" /\ cy[w].pc \in AfterParse

\* the mention of w has exactly one audit record, a skipped one with this
\* reason and no issue id or reply id
OneSkippedRecord(w, reason) ==
    /\ Cardinality(RecordsOf(Cur(w))) = 1
    /\ \A i \in RecordsOf(Cur(w)) :
          /\ i > cy[w].start.n_processed
          /\ processed_tweets[i].status = "skipped"
          /\ processed_tweets[i].skip_reason = reason
          /\ processed_tweets[i].issue_id = None
          /\ processed_tweets[i].reply_tweet_id = None

(* C9: for a mention parsed as civic, process_tweet takes the create path if
   and only if the confidence is at least CONFIDENCE_THRESHOLD (0.6 itself
   creates): past the insert the mention has its issue. Below the threshold
   it takes the skip path, no issue is added for the mention, and the
   skipped record stored carries the reason low_confidence with the
   confidence formatted to two decimals. *)
C9_ConfidenceGate ==
    \A w \in Workers :
        (Parsed(w) /\ cy[w].parse_result.is_civic_issue)
            => IF cy[w].parse_result.confidence >= CONFIDENCE_THRESHOLD
               THEN /\ cy[w].pc \notin SkipPath
                    /\ cy[w].skip_reason = NoReason
                    /\ cy[w].pc \in {"t_store_processed", "t_stats_created"}
                          => Cardinality(NewIssuesOf(w, Cur(w))) = 1
               ELSE /\ cy[w].pc \notin CreatePath
                    /\ NewIssuesOf(w, Cur(w)) = {}
                    /\ NewRepliesTo(w, Cur(w)) = {}
                    /\ cy[w].skip_reason = LowConfidenceReason(cy[w].parse_result.confidence)
                    /\ cy[w].pc = "t_stats_skipped"
                          => OneSkippedRecord(w, <<"low_confidence",
                                 Format2f(cy[w].parse_result.confidence)>>)

\* a civic mention with confidence exactly 0.6 has its issue, and the
\* processed record is being stored
C9_Witness ==
    \E w \in Workers :
        /\ Parsed(w)
        /\ cy[w].parse_result = [is_civic_issue |-> TRUE, confidence |-> CONFIDENCE_THRESHOLD]
        /\ cy[w].pc = "t_store_processed"
        /\ NewIssuesOf(w, Cur(w)) # {}

\* a civic mention with confidence 0.599 has its skipped record
C9_WitnessBelow ==
    \E w \in Workers :
        /\ Parsed(w)
        /\ cy[w].parse_result = [is_civic_issue |-> TRUE, confidence |-> CONFIDENCE_THRESHOLD - 1]
        /\ cy[w].pc = "t_stats_skipped"

\* the state of C10 at a mention parsed as not civic: the skip path, no
\* issue, no reply, and after the audit write exactly one record
NotCivicState(w) ==
    /\ cy[w].pc \notin CreatePath
    /\ cy[w].skip_reason = NotCivicReason
    /\ NewIssuesOf(w, Cur(w)) = {}
    /\ NewRepliesTo(w, Cur(w)) = {}
    /\ cy[w].pc = "t_stats_skipped" => OneSkippedRecord(w, NotCivicReason)

\* the step of C10 by which process_tweet returns from the skip path: the
\* stores keep what they hold and the cycle is at the next mention, or at
\* set_since_id after the last one
NotCivicReturn(w) ==
    (cy[w].pc = "t_stats_skipped" /\ cy'[w].pc \notin {"t_stats_skipped", "t_store_failed"})
        => /\ processed_tweets' = processed_tweets
           /\ issues' = issues
           /\ replies' = replies
           /\ cy'[w].tweets = cy[w].tweets
           /\ IF cy[w].idx < Len(cy[w].tweets)
              THEN cy'[w].pc = "t_is_dup" /\ cy'[w].idx = cy[w].idx + 1
              ELSE cy'[w].pc = "t_set_since"

(* C10: a mention parsed as not civic, whatever its confidence, takes the
   skip path with the reason not_civic_issue: no issue and no reply are made
   for it, once the audit write is done it has exactly one audit record,
   skipped with that reason, and when process_tweet returns the cycle goes on
   with the next mention. *)
C10_SkipNotCivic ==
    [][\A w \in Workers :
          (Parsed(w) /\ ~cy[w].parse_result.is_civic_issue)
              => NotCivicState(w) /\ NotCivicReturn(w)]_vars

\* a mention parsed as not civic with confidence 0.85 has its skipped
\* record, and a later mention of the batch is waiting
C10_Witness ==
    \E w \in Workers :
        /\ Parsed(w)
        /\ cy[w].parse_result = [is_civic_issue |-> FALSE, confidence |-> 850]
        /\ cy[w].pc = "t_stats_skipped"
        /\ cy[w].idx < Len(cy[w].tweets)

\* the step of C11 that inserts the issue: whatever the reply does, the
\* next step is the audit write of the processed record, and the reply id
\* is null exactly when no reply was posted
IssueThenReply(w) ==
    (cy[w].pc = "t_create_issue" /\ issues' # issues)
        => /\ cy'[w].pc = "t_store_processed"
           /\ cy'[w].issue_id = Len(issues')
           /\ issues'[Len(issues')].tweet_id = Cur(w)
           /\ processed_tweets' = processed_tweets
           /\ poll_state' = poll_state
           /\ (cy'[w].reply_id = None) <=> (replies' = replies)
           /\ ~write_client => replies' = replies

\* the steps of C11 after a reply that was not posted: the issue is kept,
\* the record stored is a processed one with the issue id and a null reply
\* id, nothing is counted as failed, and process_tweet returns to the loop
AfterNoReply(w) ==
    /\ (cy[w].pc = "t_store_processed" /\ cy[w].reply_id = None)
          => /\ issues' = issues
             /\ poll_state' = poll_state
             /\ processed_tweets' # processed_tweets
                   => /\ processed_tweets' = Append(processed_tweets,
                             ProcessedTweet(Cur(w), cy[w].issue_id, "processed",
                                            NoReason, None, NoText))
                      /\ cy'[w].pc = "t_stats_created"
    /\ (cy[w].pc = "t_stats_created" /\ cy[w].reply_id = None)
          => /\ issues' = issues
             /\ processed_tweets' = processed_tweets
             /\ poll_state'.total_failed = poll_state.total_failed
             /\ poll_state' # poll_state
                   => /\ poll_state' = update_stats(poll_state, 1, 1, 0, 0)
                      /\ cy'[w].pc \in {"t_is_dup", "t_set_since"}

(* C11: when the acknowledgement reply is not posted (create_tweet raises,
   or no write client is configured) the inserted issue is kept, the audit
   write that follows stores a processed record with the issue id and a
   null reply id, the mention is not counted as failed, and process_tweet
   returns to the loop of the cycle. *)
C11_ReplyNonFatal ==
    [][\A w \in Workers : IssueThenReply(w) /\ AfterNoReply(w)]_vars

\* create_tweet raised for a mention whose processed record, with a null
\* reply id, is stored, and a later mention of the batch is waiting
C11_Witness ==
    \E w \in Workers :
        /\ app = "main" /\ write_client
        /\ cy[w].pc = "t_stats_created"
        /\ cy[w].raised = << <<cy[w].idx, "create_tweet">> >>
        /\ cy[w].idx < Len(cy[w].tweets)
        /\ \E i \in NewRecordsOf(w, Cur(w)) :
              /\ processed_tweets[i].status = "processed"
              /\ processed_tweets[i].reply_tweet_id = None
              /\ processed_tweets[i].issue_id \in IssuesOf(Cur(w))

\* the same without write credentials
C11_WitnessNoCredentials ==
    \E w \in Workers :
        /\ app = "main" /\ ~write_client
        /\ cy[w].pc = "t_stats_created"
        /\ \E i \in NewRecordsOf(w, Cur(w)) :
              /\ processed_tweets[i].status = "processed"
              /\ processed_tweets[i].reply_tweet_id = None

\* the location extraction has returned for a tweet
Extracted == call.op = "extract_location"

\* the tweet carries geotag coordinates
HasGeotag(tweet) == tweet.geo # NoGeo /\ Len(tweet.geo.coordinates) >= 2

\* a location pattern matches the text with a match of 3 characters or more
HasPattern(tweet) == FirstLocation(tweet.pattern_matches) # NoLocation

\* the gazetteer entries hit by a hashtag, and those hit by the text
HashtagHits(tweet) ==
    { i \in 1 .. Len(INDIAN_CITIES) :
        \E j \in 1 .. Len(tweet.hashtags) : Lower(tweet.hashtags[j]) = INDIAN_CITIES[i].key }
TextHits(tweet) ==
    { i \in 1 .. Len(INDIAN_CITIES) : INDIAN_CITIES[i].key \in tweet.text_cities }

\* the default coordinates of the gazetteer entries in S
Defaults(S) == { <<INDIAN_CITIES[i].lat, INDIAN_CITIES[i].lon>> : i \in S }

\* the rank of a confidence
Tier(confidence) ==
    CASE confidence = "high" -> 3
      [] confidence = "medium" -> 2
      [] confidence = "low" -> 1
      [] OTHER -> 0

(* C12: location extraction. With geotag coordinates the result coordinates
   are the geotag's, provider (lon, lat) turned into (lat, lon), and the
   confidence is high, whatever else hits (a text pattern, a hashtag, a city
   in the text). With only a hashtag that is a gazetteer city the confidence
   is low and the coordinates are the default of a city named by a hashtag.
   In every case the confidence is never below the tier of a strategy that
   hit: a text pattern leaves at least medium, a gazetteer city at least
   low, and without a geotag it is never high. *)
C12_LocationPriority ==
    Extracted =>
        LET t == call.tweet
            r == call.result
        IN /\ HasGeotag(t)
                => /\ r.coords = <<t.geo.coordinates[2], t.geo.coordinates[1]>>
                   /\ r.confidence = "high"
                   /\ r.has_geotag
           /\ (~HasGeotag(t) /\ ~HasPattern(t) /\ TextHits(t) = {} /\ HashtagHits(t) # {})
                => /\ r.confidence = "low"
                   /\ r.coords \in Defaults(HashtagHits(t))
                   /\ r.city = INDIAN_CITIES[CHOOSE i \in HashtagHits(t) :
                                                 r.coords = <<INDIAN_CITIES[i].lat,
                                                              INDIAN_CITIES[i].lon>>].city
           /\ ~HasGeotag(t) => Tier(r.confidence) < Tier("high")
           /\ (HasPattern(t) /\ r.location = FirstLocation(t.pattern_matches))
                => Tier(r.confidence) >= Tier("medium")
           /\ (HashtagHits(t) \cup TextHits(t)) # {} => Tier(r.confidence) >= Tier("low")
           /\ (r.confidence = "medium") => (~HasGeotag(t) /\ HasPattern(t))
           /\ (r.confidence = "low") => (~HasGeotag(t) /\ r.city # NoText)
           /\ (r.confidence = "none")
                => (~HasGeotag(t) /\ r.coords = NoCoords /\ r.city = NoText)

\* a tweet with geotag coordinates, a text pattern match and a hashtag city
\* has been parsed: the coordinates are the geotag's, swapped
C12_Witness ==
    /\ Extracted
    /\ HasGeotag(call.tweet)
    /\ HasPattern(call.tweet)
    /\ HashtagHits(call.tweet) # {}
    /\ call.result.coords = <<285, 773>>
    /\ call.result.location = <<"M", "G", " ", "R", "d">>
    /\ call.result.city = "Delhi"

\* a tweet with only a hashtag city has been parsed
C12_WitnessHashtag ==
    /\ Extracted
    /\ ~HasGeotag(call.tweet) /\ ~HasPattern(call.tweet) /\ TextHits(call.tweet) = {}
    /\ call.tweet.hashtags = <<"potholes", "MUMBAI">>
    /\ call.result.confidence = "low"
    /\ call.result.coords = <<191, 729>>

\* the location block of the issue has been built from a parse
Located == call.op = "issue_location"

\* the gazetteer default coordinates of a city
CityDefault(city) ==
    LET i == CHOOSE j \in 1 .. Len(INDIAN_CITIES) : INDIAN_CITIES[j].city = city
    IN <<INDIAN_CITIES[i].lat, INDIAN_CITIES[i].lon>>

(* C13: the location status of an issue built from a parse is pending
   exactly when the parse has confidence none and no geotag coordinates, and
   then the coordinates are the default centroid (Delhi's); otherwise it is
   resolved, with the geotag coordinates when the tweet has them and else
   the gazetteer default of the issue's city (the detected city, Delhi when
   none was detected). The block is built for every parse, and it agrees
   with the status the sync cycle counts. *)
C13_LocationStatus ==
    Located =>
        LET t == call.tweet
            r == call.result
            l == call.location
        IN /\ l.status \in {"pending", "resolved"}
           /\ (l.status = "pending") <=> (r.confidence = "none" /\ ~HasGeotag(t))
           /\ l.status = "pending"
                => <<l.latitude, l.longitude>> = CityDefault("Delhi")
           /\ (l.status = "resolved" /\ HasGeotag(t))
                => <<l.latitude, l.longitude>>
                      = <<t.geo.coordinates[2], t.geo.coordinates[1]>>
           /\ (l.status = "resolved" /\ ~HasGeotag(t))
                => /\ <<l.latitude, l.longitude>> = CityDefault(l.city)
                   /\ l.city = IF r.city # NoText THEN r.city ELSE "Delhi"
           /\ l.status = LocationStatus([geotag_coords |-> r.coords # NoCoords,
                                         location_confidence |-> r.confidence])

\* an issue with a pending location: a place name but no coordinates, no
\* pattern match and no city
C13_Witness ==
    /\ Located
    /\ call.location.status = "pending"
    /\ call.result.location = <<"C", "P">>
    /\ <<call.location.latitude, call.location.longitude>> = <<286, 772>>

\* an issue resolved from a text pattern alone: the default coordinates
C13_WitnessTextOnly ==
    /\ Located
    /\ call.location.status = "resolved"
    /\ call.result.confidence = "medium"
    /\ call.result.coords = NoCoords
    /\ call.location.city = "Delhi"

\* an issue resolved to a detected city's default
C13_WitnessCity ==
    /\ Located
    /\ call.location.status = "resolved"
    /\ call.result.confidence = "low"
    /\ <<call.location.latitude, call.location.longitude>> = <<191, 729>>

\* the cumulative counters of the deployment's cursor state
Counters ==
    IF app = "main"
    THEN <<poll_state.total_processed, poll_state.total_issues_created,
           poll_state.total_skipped, poll_state.total_failed>>
    ELSE <<get_sync_state(sync_state).total_tweets_processed,
           get_sync_state(sync_state).total_issues_created>>

\* the cycle of w fetched no mention
FetchedNothing(w) == cy[w].fetched = "empty"

(* C14: a cycle whose fetch returned no mention changes neither the cursor id
   nor the cumulative counters nor the issue store nor the audit store, up
   to its end: in TwitterService they are as at the start of the cycle
   (update_stats() is called with no counter and writes the poll time only),
   in TwitterSyncService no step after the fetch writes and the stats
   returned are all zero. *)
C14_EmptyFetchFrame ==
    [][\A w \in Workers :
          FetchedNothing(w)
              => /\ issues' = issues /\ issues = SubSeq(issues, 1, cy[w].start.n_issues)
                 /\ processed_tweets' = processed_tweets
                 /\ Len(processed_tweets) = cy[w].start.n_processed
                 /\ replies' = replies
                 /\ Cursor' = Cursor /\ Cursor = CursorAtStart(w)
                 /\ Counters' = Counters
                 /\ app = "main" =>
                       /\ poll_state.total_processed = cy[w].start.poll_state.total_processed
                       /\ poll_state.total_issues_created
                             = cy[w].start.poll_state.total_issues_created
                       /\ poll_state.total_skipped = cy[w].start.poll_state.total_skipped
                       /\ poll_state.total_failed = cy[w].start.poll_state.total_failed
                 /\ app = "server" =>
                       /\ sync_state' = sync_state
                       /\ cy[w].pc = "s_return"
                       /\ cy[w].stats = ZeroStats]_vars

\* a TwitterService cycle that fetched nothing has called update_stats and
\* ended, in a deployment that had processed mentions before
C14_Witness ==
    \E w \in Workers :
        /\ app = "main"
        /\ FetchedNothing(w)
        /\ cy[w].pc = "t_return"
        /\ cy[w].raised = <<>>
        /\ poll_state.total_processed > 0
        /\ Cursor # None

\* a TwitterSyncService cycle that fetched nothing returns, in a deployment
\* that had created issues before
C14_WitnessSync ==
    \E w \in Workers :
        /\ app = "server"
        /\ FetchedNothing(w)
        /\ cy[w].pc = "s_return"
        /\ sync_state # NoRow
        /\ sync_state.total_issues_created > 0

\* the cycle of w has ended after its fetch raised op and nothing else did
EndedOnFetchError(w, op) ==
    /\ cy[w].pc \in {"t_return", "s_return"}
    /\ cy[w].raised = << <<0, op>> >>

\* the cycle of w has processed no mention: it holds no batch, and the
\* stores, the cursor and the counters are as at its start
ProcessedNothing(w) ==
    /\ cy[w].tweets = <<>>
    /\ Len(issues) = cy[w].start.n_issues
    /\ Len(processed_tweets) = cy[w].start.n_processed
    /\ Len(replies) = cy[w].start.n_replies
    /\ Cursor = CursorAtStart(w)
    /\ app = "main" =>
          poll_state = [cy[w].start.poll_state EXCEPT !.last_error = poll_state.last_error]

(* C15: a cycle whose fetch raised an error that is not a rate limit ends
   without processing any mention. TwitterSyncService returns stats whose
   errors is 1 and whose other counts are 0 (after a RateLimitError errors
   stays 0); TwitterService records the error as last_error of the cursor
   document. *)
C15_FetchErrorAborts ==
    \A w \in Workers :
        /\ (app = "main" /\ EndedOnFetchError(w, "get_users_mentions"))
              => /\ ProcessedNothing(w)
                 /\ poll_state.last_error = "get_users_mentions"
        /\ (app = "server" /\ EndedOnFetchError(w, "TwitterAPIError"))
              => /\ ProcessedNothing(w)
                 /\ cy[w].stats = [ZeroStats EXCEPT !.errors = 1]
        /\ (app = "server" /\ EndedOnFetchError(w, "RateLimitError"))
              => /\ ProcessedNothing(w)
                 /\ cy[w].stats = ZeroStats

\* a TwitterService cycle ended on a fetch error, in a deployment whose
\* last cycle had left no error
C15_Witness ==
    \E w \in Workers :
        /\ app = "main"
        /\ EndedOnFetchError(w, "get_users_mentions")
        /\ cy[w].start.poll_state.last_error = NoText
        /\ cy[w].start.poll_state.since_id # None
        /\ poll_state.last_error = "get_users_mentions"

\* a TwitterSyncService cycle ended on a TwitterAPIError
C15_WitnessSync ==
    \E w \in Workers :
        /\ app = "server"
        /\ EndedOnFetchError(w, "TwitterAPIError")
        /\ cy[w].stats.errors = 1
        /\ Len(issues) > 0

\* the request to POST /twitter/sync has been answered
Responded == call.op = "responded"

(* C16: trigger_manual_sync called in a server whose sync service was never
   set up raises at once (the endpoint answers 400): no cycle is run and no
   stored state changes. With the service set up, the request runs exactly
   one cycle of sync_mentions on the handler and the response carries the
   stats of that cycle. *)
C16_ManualTrigger ==
    [][/\ (call.op = "trigger_manual_sync" /\ ~call.sync_service /\ call' # call)
            => /\ Responded'
               /\ call'.response.status = 400 /\ ~call'.response.success
               /\ call'.cycles_run = 0
               /\ cy' = cy /\ \A w \in Workers : Idle(w)
               /\ stores' = stores
       /\ (call.op = "trigger_manual_sync" /\ call.sync_service /\ call' # call)
            => /\ call'.op = "sync_mentions"
               /\ Idle(Handler) /\ ~Idle(Handler)'
       /\ (~call.sync_service) => (cy' = cy /\ stores' = stores)
       /\ (call.op = "sync_mentions" /\ Responded')
            => /\ cy[Handler].pc = "s_return" /\ Idle(Handler)'
               /\ call'.cycles_run = 1
               /\ call'.response = [status |-> 200, success |-> TRUE,
                                    stats |-> cy[Handler].stats]
               /\ cy[Handler].stats.issues_created
                     = Len(issues) - cy[Handler].start.n_issues
               /\ stores' = stores
       /\ Responded => (call' = call /\ Idle(Handler)')]_vars

\* the request was answered without a cycle, by a server without sync
\* service
C16_Witness ==
    /\ Responded
    /\ ~call.sync_service
    /\ call.response.status = 400
    /\ issues = <<>> /\ sync_state = NoRow

\* the request was answered with the stats of its cycle, which created
\* issues and skipped a duplicate
C16_WitnessCycle ==
    /\ Responded
    /\ call.sync_service
    /\ call.response.status = 200
    /\ call.response.stats.issues_created = 2
    /\ call.response.stats.duplicates_skipped = 1

\* the audit records present before a step are all present after it, at the
\* same positions and with the same fields
RecordsKept ==
    /\ Len(processed_tweets') >= Len(processed_tweets)
    /\ SubSeq(processed_tweets', 1, Len(processed_tweets)) = processed_tweets

\* C17: the audit store is append-only: every step of the pipeline leaves the
\* records already stored in place with identical fields (none is updated,
\* none is deleted), so a record that exists in a state exists unchanged in
\* every later state.
C17_AppendOnly == [][RecordsKept]_vars

\* a second record of a mention was stored after the first and the first is
\* still there as it was written: a skipped or processed record followed by
\* the failed record of the same mention
C17_Witness ==
    \E i, j \in 1 .. Len(processed_tweets) :
        /\ i < j
        /\ processed_tweets[i].tweet_id = processed_tweets[j].tweet_id
        /\ processed_tweets[i].status \in {"skipped", "processed"}
        /\ processed_tweets[j].status = "failed"

\* records stored in two different cycles: one of a mention at or below the
\* stored cursor, and after it one of a mention fetched past that cursor
C17_WitnessCycles ==
    /\ poll_state.since_id # None
    /\ \E i, j \in 1 .. Len(processed_tweets) :
           /\ i < j
           /\ processed_tweets[i].tweet_id <= poll_state.since_id
           /\ processed_tweets[j].tweet_id > poll_state.since_id

\* C18: the title _extract_title returns has at most 100 characters for
\* every clean text, the appended ellipsis counted, whether it is the first
\* sentence or a truncation, and the title of the empty clean text is the
\* fixed placeholder.
C18_TitleLength ==
    call.op = "extract_title"
        => /\ Len(call.result) <= 100
           /\ call.text = <<>> => call.result = Placeholder

\* TwitterService: parse_tweet_to_issue has just come back from a degraded
\* request: the default result is taken as a parse, the mention goes to the
\* skip path as not a civic issue, nothing is raised, no store is written
DegradedParse(w) ==
    (cy[w].pc = "t_parse" /\ cy'[w].ai \in Degraded)
        => /\ cy'[w].parse_result = DefaultParse
           /\ cy'[w].pc = "t_store_skipped"
           /\ cy'[w].skip_reason = NotCivicReason
           /\ cy'[w].raised = cy[w].raised
           /\ UNCHANGED stores

\* TwitterService: a step of the mention after the degraded parse in which
\* no call raises stores at most the skipped record, counts nothing as
\* failed, records no error, and after the counters the loop goes on
DegradedSkip(w) ==
    (/\ cy[w].ai \in Degraded
     /\ cy[w].pc \in {"t_store_skipped", "t_stats_skipped"}
     /\ cy'[w].raised = cy[w].raised)
        => /\ processed_tweets' # processed_tweets
                 => processed_tweets' = Append(processed_tweets,
                        ProcessedTweet(Cur(w), None, "skipped", NotCivicReason,
                                       None, NoText))
           /\ poll_state'.total_failed = poll_state.total_failed
           /\ poll_state'.last_error = poll_state.last_error
           /\ cy[w].pc = "t_stats_skipped"
                 => /\ cy'[w].newest_id = Cur(w)
                    /\ IF cy[w].idx < Len(cy[w].tweets)
                       THEN cy'[w].idx = cy[w].idx + 1 /\ cy'[w].pc = "t_is_dup"
                       ELSE cy'[w].pc = "t_set_since"

\* TwitterSyncService: the classification of a tweet came back degraded and
\* the insert did not raise: the issue is created with the category general,
\* no error is counted, the loop goes on to the next tweet
DegradedClassify(w) ==
    (/\ cy[w].pc = "s_classify"
     /\ cy'[w].ai \in Degraded
     /\ cy'[w].raised = cy[w].raised)
        => /\ issues' = Append(issues, [tweet_id |-> Cur(w),
                                         location_status |-> cy[w].location_status,
                                         category |-> "general"])
           /\ cy'[w].stats.errors = cy[w].stats.errors
           /\ cy'[w].stats.issues_created = cy[w].stats.issues_created + 1
           /\ cy'[w].idx = cy[w].idx + 1
           /\ cy'[w].pc = "s_loop"

\* C19: when the classification collaborator is unavailable or its answer is
\* malformed, the outcome is taken as the fallback classification and not as
\* an error of the pipeline: the mention gets no failed audit record, no
\* error is counted, and the cycle goes on to the next mention.
C19_DegradedClassification ==
    [][\A w \in Workers :
          DegradedParse(w) /\ DegradedSkip(w) /\ DegradedClassify(w)]_vars

\* TwitterService: a mention whose parse got a malformed answer has its
\* skipped record stored, with nothing raised in the cycle
C19_Witness ==
    \E w \in Workers :
        /\ app = "main"
        /\ cy[w].pc = "t_stats_skipped"
        /\ cy[w].ai = "malformed"
        /\ cy[w].raised = <<>>
        /\ \E i \in RecordsOf(Cur(w)) : processed_tweets[i].status = "skipped"

\* TwitterSyncService: the issue of a tweet classified without an API key is
\* in the store with the category general, no error counted, and the loop
\* stands at the next tweet
C19_WitnessSync ==
    \E w \in Workers :
        /\ app = "server"
        /\ cy[w].pc = "s_loop"
        /\ cy[w].ai = "unavailable"
        /\ cy[w].stats.errors = 0
        /\ cy[w].idx = 2
        /\ cy[w].idx <= Len(cy[w].tweets)
        /\ \E i \in IssuesOf(cy[w].tweets[1]) : issues[i].category = "general"

\* the response is one with this status code
HasStatus(response, status_code) ==
    response # Timeout /\ response.status_code = status_code

\* C20: TwitterClient maps the responses of the source to typed outcomes: on
\* get_mentions a 429 raises RateLimitError and every other response that is
\* not a success, like a timeout, raises a TwitterAPIError that is not a
\* RateLimitError; on get_user_id and get_tweet a 404 returns None and
\* raises nothing.
C20_TypedOutcomes ==
    /\ call.op = "get_mentions"
          => /\ HasStatus(call.response, 429)
                   => /\ call.result.kind = "raise"
                      /\ IsInstance(call.result.exc, "RateLimitError")
             /\ (~HasStatus(call.response, 200) /\ ~HasStatus(call.response, 429))
                   => /\ call.result.kind = "raise"
                      /\ IsInstance(call.result.exc, "TwitterAPIError")
                      /\ ~IsInstance(call.result.exc, "RateLimitError")
             /\ HasStatus(call.response, 200) => call.result.kind = "return"
    /\ (call.op \in {"get_user_id", "get_tweet"} /\ HasStatus(call.response, 404))
          => call.result = Return(NoText)

\* get_mentions has raised RateLimitError on a 429
C20_Witness ==
    /\ call.op = "get_mentions"
    /\ HasStatus(call.response, 429)
    /\ call.result = Raise("RateLimitError")

\* get_mentions has raised the generic error on a timeout
C20_WitnessTimeout ==
    /\ call.op = "get_mentions"
    /\ call.response = Timeout
    /\ call.result = Raise("TwitterAPIError")

\* get_user_id has returned None on a 404
C20_WitnessNotFound ==
    /\ call.op = "get_user_id"
    /\ HasStatus(call.response, 404)
    /\ call.result.kind = "return"
    /\ call.result.value = NoText

\* the number of mentions of its batch a cycle has started to process
Started(w) ==
    IF cy[w].pc \in {"idle", "t_get_since", "s_get_mentions"} \/ cy[w].tweets = <<>>
    THEN 0
    ELSE IF cy[w].pc \in {"t_is_dup", "s_loop"} /\ cy[w].idx <= Len(cy[w].tweets)
    THEN cy[w].idx - 1
    ELSE IF cy[w].idx > Len(cy[w].tweets) THEN Len(cy[w].tweets)
    ELSE cy[w].idx

\* C22: within one poll cycle the fetched mentions are processed one at a
\* time in chronological order, oldest first: the cycle works on one mention
\* only, and no mention is started before a mention of the same batch with a
\* smaller id.
C22_OldestFirst ==
    \A w \in Workers :
        \A i \in 1 .. Started(w) :
            \A j \in 1 .. Len(cy[w].tweets) :
                cy[w].tweets[j] < cy[w].tweets[i] => j < i

\* the largest id of a batch, the ids read as numbers
LargestId(tweets) ==
    CHOOSE m \in { tweets[i] : i \in 1 .. Len(tweets) } :
        \A i \in 1 .. Len(tweets) : tweets[i] <= m

\* the step in which the cycle of w, its loop finished, writes the cursor
WritesCursor(w) ==
    \/ cy[w].pc = "t_set_since" /\ cy'[w].pc = "t_return"
    \/ /\ cy[w].pc = "s_loop"
       /\ cy'[w].pc = "s_return"
       /\ cy'[w].raised = cy[w].raised

\* C23: a poll cycle that observed at least one mention and finished its
\* loop stores as cursor the largest mention id of the fetched batch,
\* largest as a number whatever the digit lengths of the ids.
C23_CursorIsLargest ==
    [][\A w \in Workers : WritesCursor(w) => Cursor' = LargestId(cy[w].tweets)]_vars

RECURSIVE Uncounted(_)
\* the issues the cycles of the workers W have created and not yet added to
\* the stored total: the issues_created of a sync cycle that has not reached
\* _update_sync_state, the issue of a poll cycle between its insert and its
\* update_stats
Uncounted(W) ==
    IF W = {} THEN 0
    ELSE LET w == CHOOSE v \in W : TRUE
         IN  (IF cy[w].pc \in {"s_loop", "s_classify"} THEN cy[w].stats.issues_created
              ELSE IF cy[w].pc \in {"t_store_processed", "t_stats_created"} THEN 1
              ELSE 0)
             + Uncounted(W \ {w})

\* the stored total of issues created
TotalIssuesCreated ==
    IF app = "main" THEN poll_state.total_issues_created
    ELSE get_sync_state(sync_state).total_issues_created

\* every issue in the store is in the stored total or in the count of a
\* cycle that has yet to write it
TotalsAccount == TotalIssuesCreated + Uncounted(Workers) = Len(issues)

\* the step in which the cycle of w runs _update_sync_state adds the counts
\* of the cycle to the totals stored at that moment
AddsCounts(w) ==
    (cy[w].pc = "s_loop" /\ cy'[w].pc = "s_return")
        => /\ get_sync_state(sync_state').total_issues_created
                 = get_sync_state(sync_state).total_issues_created
                      + cy[w].stats.issues_created
           /\ get_sync_state(sync_state').total_tweets_processed
                 = get_sync_state(sync_state).total_tweets_processed
                      + cy[w].stats.tweets_fetched

\* C24: the write of the cursor state is additive: _update_sync_state adds the
\* counts of its cycle to the stored totals, so that after any cycles that
\* reached the update, a manual and a scheduled one interleaved included,
\* total_issues_created is the sum of their issues_created: no contribution
\* is lost or overwritten.
C24_AdditiveTotals ==
    [][TotalsAccount' /\ \A w \in Workers : AddsCounts(w)]_vars

\* two interleaved sync cycles have each created an issue of the same
\* mention and both have written their counts
C24_Witness ==
    /\ app = "server"
    /\ AllIdle
    /\ \E m \in Ids : Cardinality(IssuesOf(m)) = 2
    /\ TotalIssuesCreated = Len(issues)

\* the fields of an audit record agree with its status
ConsistentRecord(p) ==
    /\ p.status \in {"processed", "skipped", "failed"}
    /\ p.status = "processed"
          => /\ p.issue_id # None
             /\ p.issue_id \in 1 .. Len(issues)
             /\ issues[p.issue_id].tweet_id = p.tweet_id
    /\ p.status = "skipped"
          => /\ p.issue_id = None
             /\ p.reply_tweet_id = None
             /\ p.skip_reason # NoReason
    /\ p.status = "failed"
          => /\ p.issue_id = None
             /\ p.error_message # NoText

\* C26: every audit record ever stored has a status among processed, skipped
\* and failed, never the default pending, and fields that agree with it: a
\* processed record names an issue of the issue store, a skipped record has
\* no issue id, no reply id and a skip reason, a failed record has no issue
\* id and an error message.
C26_RecordConsistent ==
    \A i \in 1 .. Len(processed_tweets) : ConsistentRecord(processed_tweets[i])

\* the store holds a record of each status
C26_Witness ==
    \A status \in {"processed", "skipped", "failed"} :
        \E i \in 1 .. Len(processed_tweets) : processed_tweets[i].status = status

\* the poll-state counters add up
Balanced ==
    poll_state.total_processed
        = poll_state.total_issues_created + poll_state.total_skipped
             + poll_state.total_failed

\* process_tweet returning at its duplicate check leaves the counters
SkipsDuplicate(w) ==
    (/\ cy[w].pc = "t_is_dup"
     /\ is_duplicate(Cur(w))
     /\ cy'[w].raised = cy[w].raised)
        => /\ cy'[w].pc \in {"t_is_dup", "t_set_since"}
           /\ poll_state' = poll_state

\* C27: in the poll-state document of TwitterService total_processed is the
\* sum of total_issues_created, total_skipped and total_failed in every
\* reachable state, and a mention skipped as a duplicate changes none of
\* these counters.
C27_CountersBalanced ==
    [][Balanced /\ Balanced' /\ \A w \in Workers : SkipsDuplicate(w)]_vars

\* a cycle has passed over a duplicate, a mention that failed in an earlier
\* cycle, with the counters as they were when the cycle started
C27_Witness ==
    \E w \in Workers :
        /\ app = "main"
        /\ cy[w].pc \in {"t_is_dup", "t_set_since"}
        /\ cy[w].newest_id # None
        /\ HandledBefore(w, cy[w].newest_id)
        /\ poll_state.total_failed >= 1
        /\ poll_state.total_processed = cy[w].start.poll_state.total_processed

\* every mention the endpoint has returned with an id at or below the stored
\* cursor of TwitterService has an audit record
HandledUpToCursor ==
    (app = "main" /\ poll_state.since_id # None)
        => \A m \in seen : m <= poll_state.since_id => RecordsOf(m) # {}

\* the except block of poll_mentions leaves the cursor as it is
AbortKeepsCursor(w) ==
    cy[w].pc = "t_poll_error" => poll_state'.since_id = poll_state.since_id

\* C28: poll_mentions writes the cursor only after process_tweet has returned
\* for every mention of the batch, so whenever the stored cursor is c every
\* mention ever fetched with an id at or below c has an audit record; when
\* processing aborts part-way through a batch the cursor is not written.
C28_CursorAfterBatch ==
    [][HandledUpToCursor' /\ \A w \in Workers : AbortKeepsCursor(w)]_vars

\* the mentions of the batch of w whose processing raised inside the loop
RaisedMentions(w) ==
    { cy[w].tweets[cy[w].raised[k][1]] :
         k \in { j \in 1 .. Len(cy[w].raised) : cy[w].raised[j][2] = "insert" } }

\* the step in which a sync cycle, its loop finished, runs _update_sync_state
\* and it writes
SyncLoopFinished(w) ==
    /\ cy[w].pc = "s_loop"
    /\ cy'[w].pc = "s_return"
    /\ cy'[w].raised = cy[w].raised

\* C29: in sync_mentions the cursor advances to the newest id of the batch
\* whenever the loop finishes, also when mentions of the batch raised while
\* they were processed; a mention that raised has no issue, and it lies at or
\* below the cursor, so that no later cycle, fetching above the cursor,
\* processes it again.
C29_CursorPastFailures ==
    [][\A w \in Workers :
          SyncLoopFinished(w)
              => /\ get_sync_state(sync_state').last_mention_id
                       = LargestId(cy[w].tweets)
                 /\ \A m \in RaisedMentions(w) :
                       /\ IssuesOf(m) = {}
                       /\ m <= get_sync_state(sync_state').last_mention_id]_vars

\* C30: for every input of the parser, location_confidence is "none" only if
\* the extracted location, the extracted city and the coordinates are all
\* null: a parse that returns a place name, a city or coordinates has
\* confidence "high", "medium" or "low".
C30_ConfidenceNoneMeansNothing ==
    call.op = "extract_location" /\ call.result.confidence = "none"
        => /\ call.result.location = NoLocation
           /\ call.result.city = NoText
           /\ call.result.coords = NoCoords

====
